---- MODULE Spec2Model ----
(***************************************************************************)
(* Model of backend/main.py of Bread.ai: the response cache kept in the    *)
(* SQLite table response_cache, the key derivation, the input sanitizer    *)
(* and the request handlers that use them.                                 *)
(*                                                                         *)
(* Text is a sequence of character codes (ASCII); a timestamp is the text  *)
(* SQLite stores in the TIMESTAMP column, compared as SQLite compares TEXT *)
(* (byte by byte).  The clock counts seconds.                              *)
(***************************************************************************)
EXTENDS Integers, Sequences, FiniteSets, TLC

VARIABLES
    store,    \* rows of table response_cache
    now,      \* the UTC clock, in seconds
    tz,       \* offset of the host's local time from UTC, in seconds
    enabled,  \* CACHE_ENABLED
    last,     \* the last operation and what it returned
    nhits,    \* history: per cache_key, the hits returned since its last put
    served,   \* history: the requests the handlers have served
    procs,    \* per caller, where its call of a cache operation stands
    lock,     \* the caller that holds the write lock of the database, or 0
    written   \* history: the rows the puts of concurrent callers committed

vars == <<store, now, tz, enabled, last, nhits, served, procs, lock, written>>

----------------------------------------------------------------------------
(* Bounds of the model *)

\* the clock advances at most this many times
MaxTicks == 2
\* a row is read at most this many times before it is written again
MaxHits == 2

----------------------------------------------------------------------------
(* Configuration *)

CACHE_TTL_ASK == 3600
CACHE_TTL_RECIPE == 86400

SecondsPerDay == 24 * 60 * 60

\* what one advance of the clock adds: half a day
TickSeconds == SecondsPerDay \div 2

\* the clock starts at 00:00:00 UTC of the second day of the month
StartClock == SecondsPerDay

\* local-time offsets of the host: UTC-5, UTC, UTC+5:30
TzOffsets == {0 - 18000, 0, 19800}

----------------------------------------------------------------------------
(* Text *)

Min(a, b) == IF a < b THEN a ELSE b

\* memcmp order of two texts (SQLite's BINARY collation)
TextLess(a, b) ==
    \E i \in 1..(Min(Len(a), Len(b)) + 1) :
        /\ \A j \in 1..(i - 1) : a[j] = b[j]
        /\ \/ i > Len(a) /\ i <= Len(b)
           \/ i <= Len(a) /\ i <= Len(b) /\ a[i] < b[i]

Digits2(n) == <<48 + (n \div 10), 48 + (n % 10)>>

\* the fields of an instant t (seconds since 00:00:00 of day 1 of the month);
\* the year-month prefix "YYYY-MM-" is the same in every timestamp of a run
\* and is left out of the texts
DayOf(t) == 1 + (t \div SecondsPerDay)
ClockText(t) ==
    Digits2((t % SecondsPerDay) \div 3600) \o <<58>> \o
    Digits2((t % 3600) \div 60) \o <<58>> \o Digits2(t % 60)

\* str() of a naive datetime, with a space where isoformat() has the T
isoformat_Space(t) == Digits2(DayOf(t)) \o <<32>> \o ClockText(t)

\* datetime.isoformat() of a naive datetime: "DDTHH:MM:SS"
isoformat(t) == Digits2(DayOf(t)) \o <<84>> \o ClockText(t)

\* SQLite datetime('now') and CURRENT_TIMESTAMP: UTC, "DD HH:MM:SS"
sqlite_now(t) == Digits2(DayOf(t)) \o <<32>> \o ClockText(t)

\* datetime.now(): the host's local time
datetime_now == now + tz

\* json.dumps / json.loads of a payload
json_dumps(p) == <<"json", p>>
json_loads(s) == s[2]

----------------------------------------------------------------------------
(* Python's re, for the patterns of INJECTION_PATTERNS: a pattern is a tree *)
(* and Ends(r, s, S) is the set of offsets where a match of r in s that     *)
(* starts at an offset of S can end.                                        *)

Max(a, b) == IF a < b THEN b ELSE a

\* the ASCII characters
Ascii == 0..127

\* \s, and what str.strip() and str.split() take for white space
Whitespace == {9, 10, 11, 12, 13, 28, 29, 30, 31, 32}

\* under (?i) a letter matches in either case
CaseFold(c) == IF c \in 97..122 THEN {c, c - 32} ELSE {c}

Chr(S) == [t |-> "chr", s |-> S]
Cat(a) == [t |-> "cat", a |-> a]
Alt(a) == [t |-> "alt", a |-> a]
Opt(r) == [t |-> "opt", r |-> r]
Star(r) == [t |-> "star", r |-> r]
Plus(r) == [t |-> "plus", r |-> r]
Lit(w) == Cat([i \in DOMAIN w |-> Chr({w[i]})])
LitI(w) == Cat([i \in DOMAIN w |-> Chr(CaseFold(w[i]))])

RECURSIVE Ends(_, _, _)
RECURSIVE CatEnds(_, _, _, _)
RECURSIVE StarEnds(_, _, _)

Ends(r, s, S) ==
    IF S = {} THEN {}
    ELSE CASE r.t = "chr" -> {i + 1 : i \in {j \in S : j < Len(s) /\ s[j + 1] \in r.s}}
           [] r.t = "cat" -> CatEnds(r.a, 1, s, S)
           [] r.t = "alt" -> UNION {Ends(r.a[k], s, S) : k \in DOMAIN r.a}
           [] r.t = "opt" -> S \cup Ends(r.r, s, S)
           [] r.t = "star" -> StarEnds(r.r, s, S)
           [] r.t = "plus" -> StarEnds(r.r, s, Ends(r.r, s, S))

CatEnds(a, k, s, S) ==
    IF k > Len(a) THEN S ELSE CatEnds(a, k + 1, s, Ends(a[k], s, S))

StarEnds(r, s, S) ==
    LET N == S \cup Ends(r, s, S) IN
    IF N = S THEN S ELSE StarEnds(r, s, N)

\* pattern.search(s): a match starts somewhere in s
re_search(r, s) == Ends(r, s, 0..Len(s)) # {}

----------------------------------------------------------------------------
(* Input sanitization *)

MAX_QUERY_LENGTH == 500
MAX_BREAD_NAME_LENGTH == 100

\* line 39:  r"(?i)(ignore|disregard|forget|override|bypass)\s+(all\s+)?(previous|above|prior|earlier|system)\s+(instructions?|prompts?|rules?|guidelines?)"
INJECTION_PATTERN_1 ==
    Cat(<<Alt(<<LitI(<<105, 103, 110, 111, 114, 101>>), LitI(<<100, 105, 115,
        114, 101, 103, 97, 114, 100>>), LitI(<<102, 111, 114, 103, 101,
        116>>), LitI(<<111, 118, 101, 114, 114, 105, 100, 101>>), LitI(<<98,
        121, 112, 97, 115, 115>>)>>), Plus(Chr(Whitespace)),
        Opt(Cat(<<LitI(<<97, 108, 108>>), Plus(Chr(Whitespace))>>)),
        Alt(<<LitI(<<112, 114, 101, 118, 105, 111, 117, 115>>), LitI(<<97, 98,
        111, 118, 101>>), LitI(<<112, 114, 105, 111, 114>>), LitI(<<101, 97,
        114, 108, 105, 101, 114>>), LitI(<<115, 121, 115, 116, 101, 109>>)>>),
        Plus(Chr(Whitespace)), Alt(<<Cat(<<LitI(<<105, 110, 115, 116, 114,
        117, 99, 116, 105, 111, 110>>), Opt(LitI(<<115>>))>>),
        Cat(<<LitI(<<112, 114, 111, 109, 112, 116>>), Opt(LitI(<<115>>))>>),
        Cat(<<LitI(<<114, 117, 108, 101>>), Opt(LitI(<<115>>))>>),
        Cat(<<LitI(<<103, 117, 105, 100, 101, 108, 105, 110, 101>>),
        Opt(LitI(<<115>>))>>)>>)>>)

\* line 40:  r"(?i)(ignore|disregard|forget|override|bypass)\s+(your\s+)?(system\s+)?(instructions?|prompts?|rules?|guidelines?)"
INJECTION_PATTERN_2 ==
    Cat(<<Alt(<<LitI(<<105, 103, 110, 111, 114, 101>>), LitI(<<100, 105, 115,
        114, 101, 103, 97, 114, 100>>), LitI(<<102, 111, 114, 103, 101,
        116>>), LitI(<<111, 118, 101, 114, 114, 105, 100, 101>>), LitI(<<98,
        121, 112, 97, 115, 115>>)>>), Plus(Chr(Whitespace)),
        Opt(Cat(<<LitI(<<121, 111, 117, 114>>), Plus(Chr(Whitespace))>>)),
        Opt(Cat(<<LitI(<<115, 121, 115, 116, 101, 109>>),
        Plus(Chr(Whitespace))>>)), Alt(<<Cat(<<LitI(<<105, 110, 115, 116, 114,
        117, 99, 116, 105, 111, 110>>), Opt(LitI(<<115>>))>>),
        Cat(<<LitI(<<112, 114, 111, 109, 112, 116>>), Opt(LitI(<<115>>))>>),
        Cat(<<LitI(<<114, 117, 108, 101>>), Opt(LitI(<<115>>))>>),
        Cat(<<LitI(<<103, 117, 105, 100, 101, 108, 105, 110, 101>>),
        Opt(LitI(<<115>>))>>)>>)>>)

\* line 41:  r"(?i)(new\s+)?instructions?:\s*"
INJECTION_PATTERN_3 ==
    Cat(<<Opt(Cat(<<LitI(<<110, 101, 119>>), Plus(Chr(Whitespace))>>)),
        LitI(<<105, 110, 115, 116, 114, 117, 99, 116, 105, 111, 110>>),
        Opt(LitI(<<115>>)), Lit(<<58>>), Star(Chr(Whitespace))>>)

\* line 42:  r"(?i)you\s+are\s+now\s+(a|an)\s+"
INJECTION_PATTERN_4 ==
    Cat(<<LitI(<<121, 111, 117>>), Plus(Chr(Whitespace)), LitI(<<97, 114,
        101>>), Plus(Chr(Whitespace)), LitI(<<110, 111, 119>>),
        Plus(Chr(Whitespace)), Alt(<<LitI(<<97>>), LitI(<<97, 110>>)>>),
        Plus(Chr(Whitespace))>>)

\* line 43:  r"(?i)pretend\s+(you\s+are|to\s+be)\s+"
INJECTION_PATTERN_5 ==
    Cat(<<LitI(<<112, 114, 101, 116, 101, 110, 100>>), Plus(Chr(Whitespace)),
        Alt(<<Cat(<<LitI(<<121, 111, 117>>), Plus(Chr(Whitespace)), LitI(<<97,
        114, 101>>)>>), Cat(<<LitI(<<116, 111>>), Plus(Chr(Whitespace)),
        LitI(<<98, 101>>)>>)>>), Plus(Chr(Whitespace))>>)

\* line 44:  r"(?i)roleplay\s+as\s+"
INJECTION_PATTERN_6 ==
    Cat(<<LitI(<<114, 111, 108, 101, 112, 108, 97, 121>>),
        Plus(Chr(Whitespace)), LitI(<<97, 115>>), Plus(Chr(Whitespace))>>)

\* line 45:  r"(?i)switch\s+(to\s+)?(a\s+)?different\s+(mode|persona|role)"
INJECTION_PATTERN_7 ==
    Cat(<<LitI(<<115, 119, 105, 116, 99, 104>>), Plus(Chr(Whitespace)),
        Opt(Cat(<<LitI(<<116, 111>>), Plus(Chr(Whitespace))>>)),
        Opt(Cat(<<LitI(<<97>>), Plus(Chr(Whitespace))>>)), LitI(<<100, 105,
        102, 102, 101, 114, 101, 110, 116>>), Plus(Chr(Whitespace)),
        Alt(<<LitI(<<109, 111, 100, 101>>), LitI(<<112, 101, 114, 115, 111,
        110, 97>>), LitI(<<114, 111, 108, 101>>)>>)>>)

\* line 47:  r"(?i)(show|reveal|display|print|output)\s+(me\s+)?(your\s+)?(system\s+)?(prompt|instructions?|rules?|guidelines?)"
INJECTION_PATTERN_8 ==
    Cat(<<Alt(<<LitI(<<115, 104, 111, 119>>), LitI(<<114, 101, 118, 101, 97,
        108>>), LitI(<<100, 105, 115, 112, 108, 97, 121>>), LitI(<<112, 114,
        105, 110, 116>>), LitI(<<111, 117, 116, 112, 117, 116>>)>>),
        Plus(Chr(Whitespace)), Opt(Cat(<<LitI(<<109, 101>>),
        Plus(Chr(Whitespace))>>)), Opt(Cat(<<LitI(<<121, 111, 117, 114>>),
        Plus(Chr(Whitespace))>>)), Opt(Cat(<<LitI(<<115, 121, 115, 116, 101,
        109>>), Plus(Chr(Whitespace))>>)), Alt(<<LitI(<<112, 114, 111, 109,
        112, 116>>), Cat(<<LitI(<<105, 110, 115, 116, 114, 117, 99, 116, 105,
        111, 110>>), Opt(LitI(<<115>>))>>), Cat(<<LitI(<<114, 117, 108,
        101>>), Opt(LitI(<<115>>))>>), Cat(<<LitI(<<103, 117, 105, 100, 101,
        108, 105, 110, 101>>), Opt(LitI(<<115>>))>>)>>)>>)

\* line 48:  r"(?i)tell\s+me\s+(your\s+)?(system\s+)?(prompt|instructions?|rules?|guidelines?)"
INJECTION_PATTERN_9 ==
    Cat(<<LitI(<<116, 101, 108, 108>>), Plus(Chr(Whitespace)), LitI(<<109,
        101>>), Plus(Chr(Whitespace)), Opt(Cat(<<LitI(<<121, 111, 117, 114>>),
        Plus(Chr(Whitespace))>>)), Opt(Cat(<<LitI(<<115, 121, 115, 116, 101,
        109>>), Plus(Chr(Whitespace))>>)), Alt(<<LitI(<<112, 114, 111, 109,
        112, 116>>), Cat(<<LitI(<<105, 110, 115, 116, 114, 117, 99, 116, 105,
        111, 110>>), Opt(LitI(<<115>>))>>), Cat(<<LitI(<<114, 117, 108,
        101>>), Opt(LitI(<<115>>))>>), Cat(<<LitI(<<103, 117, 105, 100, 101,
        108, 105, 110, 101>>), Opt(LitI(<<115>>))>>)>>)>>)

\* line 49:  r"(?i)what\s+(are\s+)?(your|the)\s+(system\s+)?(instructions?|prompt|rules?)"
INJECTION_PATTERN_10 ==
    Cat(<<LitI(<<119, 104, 97, 116>>), Plus(Chr(Whitespace)),
        Opt(Cat(<<LitI(<<97, 114, 101>>), Plus(Chr(Whitespace))>>)),
        Alt(<<LitI(<<121, 111, 117, 114>>), LitI(<<116, 104, 101>>)>>),
        Plus(Chr(Whitespace)), Opt(Cat(<<LitI(<<115, 121, 115, 116, 101,
        109>>), Plus(Chr(Whitespace))>>)), Alt(<<Cat(<<LitI(<<105, 110, 115,
        116, 114, 117, 99, 116, 105, 111, 110>>), Opt(LitI(<<115>>))>>),
        LitI(<<112, 114, 111, 109, 112, 116>>), Cat(<<LitI(<<114, 117, 108,
        101>>), Opt(LitI(<<115>>))>>)>>)>>)

\* line 50:  r"(?i)(repeat|echo)\s+(back\s+)?(your\s+)?(system\s+)?(prompt|instructions?)"
INJECTION_PATTERN_11 ==
    Cat(<<Alt(<<LitI(<<114, 101, 112, 101, 97, 116>>), LitI(<<101, 99, 104,
        111>>)>>), Plus(Chr(Whitespace)), Opt(Cat(<<LitI(<<98, 97, 99, 107>>),
        Plus(Chr(Whitespace))>>)), Opt(Cat(<<LitI(<<121, 111, 117, 114>>),
        Plus(Chr(Whitespace))>>)), Opt(Cat(<<LitI(<<115, 121, 115, 116, 101,
        109>>), Plus(Chr(Whitespace))>>)), Alt(<<LitI(<<112, 114, 111, 109,
        112, 116>>), Cat(<<LitI(<<105, 110, 115, 116, 114, 117, 99, 116, 105,
        111, 110>>), Opt(LitI(<<115>>))>>)>>)>>)

\* line 52:  r"```\s*(system|assistant|user)"
INJECTION_PATTERN_12 ==
    Cat(<<Lit(<<96, 96, 96>>), Star(Chr(Whitespace)), Alt(<<Lit(<<115, 121,
        115, 116, 101, 109>>), Lit(<<97, 115, 115, 105, 115, 116, 97, 110,
        116>>), Lit(<<117, 115, 101, 114>>)>>)>>)

\* line 53:  r"<\|?(system|im_start|im_end|endoftext)\|?>"
INJECTION_PATTERN_13 ==
    Cat(<<Lit(<<60>>), Opt(Lit(<<124>>)), Alt(<<Lit(<<115, 121, 115, 116, 101,
        109>>), Lit(<<105, 109, 95, 115, 116, 97, 114, 116>>), Lit(<<105, 109,
        95, 101, 110, 100>>), Lit(<<101, 110, 100, 111, 102, 116, 101, 120,
        116>>)>>), Opt(Lit(<<124>>)), Lit(<<62>>)>>)

\* line 54:  r"\[\[?(system|INST|/INST)\]?\]?"
INJECTION_PATTERN_14 ==
    Cat(<<Lit(<<91>>), Opt(Lit(<<91>>)), Alt(<<Lit(<<115, 121, 115, 116, 101,
        109>>), Lit(<<73, 78, 83, 84>>), Lit(<<47, 73, 78, 83, 84>>)>>),
        Opt(Lit(<<93>>)), Opt(Lit(<<93>>))>>)

\* line 56:  r"(?i)(execute|run|eval)\s*(this\s+)?(code|command|script)"
INJECTION_PATTERN_15 ==
    Cat(<<Alt(<<LitI(<<101, 120, 101, 99, 117, 116, 101>>), LitI(<<114, 117,
        110>>), LitI(<<101, 118, 97, 108>>)>>), Star(Chr(Whitespace)),
        Opt(Cat(<<LitI(<<116, 104, 105, 115>>), Plus(Chr(Whitespace))>>)),
        Alt(<<LitI(<<99, 111, 100, 101>>), LitI(<<99, 111, 109, 109, 97, 110,
        100>>), LitI(<<115, 99, 114, 105, 112, 116>>)>>)>>)

\* line 57:  r"(?i)import\s+os|subprocess|exec\(|eval\("
INJECTION_PATTERN_16 ==
    Alt(<<Cat(<<LitI(<<105, 109, 112, 111, 114, 116>>), Plus(Chr(Whitespace)),
        LitI(<<111, 115>>)>>), LitI(<<115, 117, 98, 112, 114, 111, 99, 101,
        115, 115>>), LitI(<<101, 120, 101, 99, 40>>), LitI(<<101, 118, 97,
        108, 40>>)>>)

INJECTION_PATTERNS ==
    <<INJECTION_PATTERN_1, INJECTION_PATTERN_2, INJECTION_PATTERN_3,
      INJECTION_PATTERN_4, INJECTION_PATTERN_5, INJECTION_PATTERN_6,
      INJECTION_PATTERN_7, INJECTION_PATTERN_8, INJECTION_PATTERN_9,
      INJECTION_PATTERN_10, INJECTION_PATTERN_11, INJECTION_PATTERN_12,
      INJECTION_PATTERN_13, INJECTION_PATTERN_14, INJECTION_PATTERN_15,
      INJECTION_PATTERN_16>>

\* str.strip()
strip(s) ==
    LET keep == {i \in 1..Len(s) : s[i] \notin Whitespace} IN
    IF keep = {} THEN <<>>
    ELSE SubSeq(s, CHOOSE i \in keep : \A j \in keep : i <= j,
                   CHOOSE i \in keep : \A j \in keep : j <= i)

\* the slice left out
Truncate_NoCut(s, n) == s

\* s[:n]
Truncate(s, n) == SubSeq(s, 1, Min(Len(s), n))

\* the characters of [\x00-\x08\x0b\x0c\x0e-\x1f\x7f]
ControlChars == (0..8) \cup {11, 12} \cup (14..31) \cup {127}

\* a removal of the null bytes only
RemoveControl_OnlyNull(s) == SelectSeq(s, LAMBDA c : c # 0)

\* re.sub(r'[\x00-\x08\x0b\x0c\x0e-\x1f\x7f]', '', s)
RemoveControl(s) == SelectSeq(s, LAMBDA c : c \notin ControlChars)

\* the offset after the run of white space that starts at offset i + 1
RECURSIVE RunEnd(_, _)
RunEnd(s, i) ==
    IF i < Len(s) /\ s[i + 1] \in Whitespace THEN RunEnd(s, i + 1) ELSE i

\* re.sub(r'\s{3,}', '  ', s), from offset i on
RECURSIVE CollapseFrom(_, _)
CollapseFrom(s, i) ==
    IF i >= Len(s) THEN <<>>
    ELSE LET j == RunEnd(s, i) IN
         IF j - i >= 3 THEN <<32, 32>> \o CollapseFrom(s, j)
         ELSE IF j > i THEN SubSeq(s, i + 1, j) \o CollapseFrom(s, j)
         ELSE <<s[i + 1]>> \o CollapseFrom(s, i + 1)

\* re.sub(r'\s{3,}', '', s), from offset i on: the long runs are deleted
RECURSIVE DeleteFrom(_, _)
DeleteFrom(s, i) ==
    IF i >= Len(s) THEN <<>>
    ELSE LET j == RunEnd(s, i) IN
         IF j - i >= 3 THEN DeleteFrom(s, j)
         ELSE IF j > i THEN SubSeq(s, i + 1, j) \o DeleteFrom(s, j)
         ELSE <<s[i + 1]>> \o DeleteFrom(s, i + 1)

CollapseWhitespace_Delete(s) == DeleteFrom(s, 0)

\* the text with its white space left as it is
CollapseWhitespace_None(s) == s

CollapseWhitespace(s) == CollapseFrom(s, 0)

\* cleaned, with the control characters left in
Cleaned_KeepControl(text, max_length) == Truncate(strip(text), max_length)

\* cleaned, as the patterns see it
Cleaned(text, max_length) == RemoveControl(Truncate(strip(text), max_length))

\* for pattern in COMPILED_INJECTION_PATTERNS: if pattern.search(cleaned)
MatchesInjection(cleaned) ==
    \E k \in DOMAIN INJECTION_PATTERNS : re_search(INJECTION_PATTERNS[k], cleaned)

\* sanitize_input returns a text or raises HTTPException(400)
\* sanitize_input without the raise
sanitize_input_NoRaise(text, max_length, field_name) ==
    [raised |-> FALSE, value |-> CollapseWhitespace(Cleaned(text, max_length))]

sanitize_input(text, max_length, field_name) ==
    IF text = <<>>
    THEN [raised |-> FALSE, value |-> text]
    ELSE LET cleaned == Cleaned(text, max_length) IN
         IF MatchesInjection(cleaned)
         THEN [raised |-> TRUE, status_code |-> 400,
               detail |-> <<"Invalid ", field_name, ": contains disallowed content">>]
         ELSE [raised |-> FALSE, value |-> CollapseWhitespace(cleaned)]

\* s[i + 1 .. i + Len(w)] = w for some offset i
Contains(s, w) ==
    \E i \in 0..(Len(s) - Len(w)) : SubSeq(s, i + 1, i + Len(w)) = w

\* bread, bake, baking, dough, flour, yeast, sourdough, loaf,
\* crust, crumb, knead, rise, proof, oven, recipe, ingredient, gluten, wheat, rye,
\* starter, ferment, leaven, ciabatta, baguette, focaccia, brioche, challah,
\* naan, pita, pretzel, rolls, sandwich
bread_keywords ==
    {
      <<98, 114, 101, 97, 100>>, <<98, 97, 107, 101>>,
      <<98, 97, 107, 105, 110, 103>>, <<100, 111, 117, 103, 104>>,
      <<102, 108, 111, 117, 114>>, <<121, 101, 97, 115, 116>>,
      <<115, 111, 117, 114, 100, 111, 117, 103, 104>>, <<108, 111, 97, 102>>,
      <<99, 114, 117, 115, 116>>, <<99, 114, 117, 109, 98>>,
      <<107, 110, 101, 97, 100>>, <<114, 105, 115, 101>>,
      <<112, 114, 111, 111, 102>>, <<111, 118, 101, 110>>,
      <<114, 101, 99, 105, 112, 101>>,
      <<105, 110, 103, 114, 101, 100, 105, 101, 110, 116>>,
      <<103, 108, 117, 116, 101, 110>>, <<119, 104, 101, 97, 116>>,
      <<114, 121, 101>>, <<115, 116, 97, 114, 116, 101, 114>>,
      <<102, 101, 114, 109, 101, 110, 116>>, <<108, 101, 97, 118, 101, 110>>,
      <<99, 105, 97, 98, 97, 116, 116, 97>>,
      <<98, 97, 103, 117, 101, 116, 116, 101>>,
      <<102, 111, 99, 97, 99, 99, 105, 97>>,
      <<98, 114, 105, 111, 99, 104, 101>>,
      <<99, 104, 97, 108, 108, 97, 104>>, <<110, 97, 97, 110>>,
      <<112, 105, 116, 97>>, <<112, 114, 101, 116, 122, 101, 108>>,
      <<114, 111, 108, 108, 115>>, <<115, 97, 110, 100, 119, 105, 99, 104>> }

\* text.lower() of ASCII text
LowerCase(s) == [i \in DOMAIN s |-> IF s[i] \in 65..90 THEN s[i] + 32 ELSE s[i]]

\* any(keyword in text_lower for keyword in bread_keywords)
is_bread_related(text) ==
    \E keyword \in bread_keywords : Contains(LowerCase(text), keyword)

----------------------------------------------------------------------------
(* Cache keys *)

\* the request kinds, as the texts the handlers pass for cache_type
KindText ==
    [ask |-> <<97, 115, 107>>,
     recipe |-> <<114, 101, 99, 105, 112, 101>>,
     technique |-> <<116, 101, 99, 104, 110, 105, 113, 117, 101>>,
     troubleshoot |-> <<116, 114, 111, 117, 98, 108, 101, 115, 104, 111, 111, 116>>]

Kinds == DOMAIN KindText

\* str.lower()
lower(s) == [i \in DOMAIN s |-> IF s[i] \in 65..90 THEN s[i] + 32 ELSE s[i]]

\* the offset after the run of non-white-space that starts at offset i + 1
RECURSIVE WordEnd(_, _)
WordEnd(s, i) ==
    IF i < Len(s) /\ s[i + 1] \notin Whitespace THEN WordEnd(s, i + 1) ELSE i

\* str.split(): the words of s, from offset i on
RECURSIVE SplitFrom(_, _)
SplitFrom(s, i) ==
    IF i >= Len(s) THEN <<>>
    ELSE IF s[i + 1] \in Whitespace THEN SplitFrom(s, i + 1)
    ELSE LET j == WordEnd(s, i) IN <<SubSeq(s, i + 1, j)>> \o SplitFrom(s, j)

split(s) == SplitFrom(s, 0)

\* ' '.join(words)
RECURSIVE join(_)
join(words) ==
    IF words = <<>> THEN <<>>
    ELSE IF Len(words) = 1 THEN words[1]
    ELSE words[1] \o <<32>> \o join(Tail(words))

\* hashlib.sha256(...).hexdigest()[:32], taken to be free of collisions: the
\* digest stands for the text it was computed from
sha256_hex32(s) == [sha256 |-> s]

\* the normal form without .lower()
normalized_NoLower(query) == join(split(strip(query)))

normalized(query) == join(split(strip(lower(query))))

\* the key without the cache_type in the hashed text
generate_cache_key_NoKind(query, cache_type) == sha256_hex32(normalized(query))

generate_cache_key(query, cache_type) ==
    sha256_hex32(KindText[cache_type] \o <<58>> \o normalized(query))

----------------------------------------------------------------------------
(* The table response_cache *)

Keys == {"k1", "k2"}

\* what a caller stores: (cache_type, query, response_data, prompt_variant)
Entries ==
    { [cache_type |-> "ask", query |-> "q1",
       response_data |-> [response |-> "a1"], prompt_variant |-> "concise"],
      [cache_type |-> "recipe", query |-> "q2",
       response_data |-> [name |-> "b2"], prompt_variant |-> "recipe_default"] }

\* ttl_seconds values a caller passes
TTLs == {0, CACHE_TTL_ASK, CACHE_TTL_RECIPE}

None == [none |-> TRUE]

\* WHERE expires_at > datetime('now')
NotExpired(row, t) == TextLess(sqlite_now(t), row.expires_at)

\* WHERE expires_at < datetime('now')
Expired(row, t) == TextLess(row.expires_at, sqlite_now(t))

\* the SELECT without the cache_key condition of its WHERE clause
SelectLive_AnyKey(st, key, t) == {r \in st : NotExpired(r, t)}

\* SELECT ... WHERE cache_key = ? AND expires_at > datetime('now')
SelectLive(st, key, t) == {r \in st : r.cache_key = key /\ NotExpired(r, t)}

\* the UPDATE without its WHERE clause
UpdateHitCount_NoWhere(st, key) ==
    {[r EXCEPT !.hit_count = @ + 1] : r \in st}

\* UPDATE response_cache SET hit_count = hit_count + 1 WHERE cache_key = ?
UpdateHitCount(st, key) ==
    {IF r.cache_key = key THEN [r EXCEPT !.hit_count = @ + 1] ELSE r : r \in st}

\* the row cache_response writes; hit_count is the literal 0, created_at the
\* column default CURRENT_TIMESTAMP
NewRow(key, e, ttl, t, local) ==
    [cache_key |-> key,
     cache_type |-> e.cache_type,
     query |-> e.query,
     response_data |-> json_dumps(e.response_data),
     prompt_variant |-> e.prompt_variant,
     hit_count |-> 0,
     created_at |-> sqlite_now(t),
     expires_at |-> isoformat(local + ttl)]

\* a plain INSERT into a table whose cache_key is not UNIQUE
InsertOrReplace_NoConflict(st, row) == st \cup {row}

\* a put that overwrites the payload column of the row in conflict and
\* leaves its other columns
InsertOrReplace_Merge(st, row) ==
    IF \E r \in st : r.cache_key = row.cache_key
    THEN {IF r.cache_key = row.cache_key
          THEN [r EXCEPT !.response_data = row.response_data] ELSE r : r \in st}
    ELSE st \cup {row}

\* INSERT OR IGNORE: the row in conflict stays and the new row is dropped
InsertOrReplace_KeepFirst(st, row) ==
    IF \E r \in st : r.cache_key = row.cache_key THEN st ELSE st \cup {row}

\* INSERT OR REPLACE: cache_key is UNIQUE, so the rows in conflict are deleted
\* before the new row is inserted
InsertOrReplace(st, row) ==
    {r \in st : r.cache_key # row.cache_key} \cup {row}

\* a hit that labels every payload with the variant "concise"
HitResult_OtherVariant(row) ==
    [response_data |-> json_loads(row.response_data),
     prompt_variant |-> "concise",
     hit_count |-> row.hit_count + 1,
     cached |-> TRUE]

\* what get_cached_response returns on a hit
HitResult(row) ==
    [response_data |-> json_loads(row.response_data),
     prompt_variant |-> row.prompt_variant,
     hit_count |-> row.hit_count + 1,
     cached |-> TRUE]

\* history, kept with a put: what the table held under the key before it
WasThere(st, key, t) ==
    IF \A r \in st : r.cache_key # key THEN "absent"
    ELSE IF SelectLive(st, key, t) # {} THEN "live" ELSE "expired"

----------------------------------------------------------------------------
(* Operations of the cache *)

\* get_cached_response without the CACHE_ENABLED check
get_cached_response_NoSwitch(key) ==
    LET rows == SelectLive(store, key, now) IN
         IF rows # {}
         THEN LET row == CHOOSE r \in rows : TRUE IN
              /\ row.hit_count < MaxHits
              /\ store' = UpdateHitCount(store, key)
              /\ last' = [op |-> "get", key |-> key, result |-> HitResult(row)]
              /\ nhits' = [nhits EXCEPT ![key] = @ + 1]
              /\ UNCHANGED <<procs, lock, written, served, now, tz, enabled>>
         ELSE /\ last' = [op |-> "get", key |-> key, result |-> None]
              /\ UNCHANGED <<procs, lock, written, served, store, now, tz, enabled, nhits>>

get_cached_response(key) ==
    IF ~enabled
    THEN /\ last' = [op |-> "get", key |-> key, result |-> None]
         /\ UNCHANGED <<procs, lock, written, served, store, now, tz, enabled, nhits>>
    ELSE LET rows == SelectLive(store, key, now) IN
         IF rows # {}
         THEN LET row == CHOOSE r \in rows : TRUE IN
              /\ row.hit_count < MaxHits
              /\ store' = UpdateHitCount(store, key)
              /\ last' = [op |-> "get", key |-> key, result |-> HitResult(row)]
              /\ nhits' = [nhits EXCEPT ![key] = @ + 1]
              /\ UNCHANGED <<procs, lock, written, served, now, tz, enabled>>
         ELSE /\ last' = [op |-> "get", key |-> key, result |-> None]
              /\ UNCHANGED <<procs, lock, written, served, store, now, tz, enabled, nhits>>

cache_response(key, e, ttl) ==
    IF ~enabled
    THEN /\ last' = [op |-> "put", key |-> key, entry |-> e, ttl |-> ttl,
                     result |-> FALSE, was |-> WasThere(store, key, now)]
         /\ UNCHANGED <<procs, lock, written, served, store, now, tz, enabled, nhits>>
    ELSE /\ store' = InsertOrReplace(store, NewRow(key, e, ttl, now, datetime_now))
         /\ last' = [op |-> "put", key |-> key, entry |-> e, ttl |-> ttl,
                     result |-> TRUE, was |-> WasThere(store, key, now)]
         /\ nhits' = [nhits EXCEPT ![key] = 0]
         /\ UNCHANGED <<procs, lock, written, served, now, tz, enabled>>

cleanup_expired_cache ==
    LET gone == {r \in store : Expired(r, now)} IN
    /\ store' = store \ gone
    /\ last' = [op |-> "sweep", result |-> Cardinality(gone)]
    /\ nhits' = [k \in Keys |->
                   IF \E r \in gone : r.cache_key = k THEN 0 ELSE nhits[k]]
    /\ UNCHANGED <<procs, lock, written, served, now, tz, enabled>>

\* a clear that deletes what the sweep deletes
clear_all_cache_OnlyExpired ==
    LET gone == {r \in store : Expired(r, now)} IN
    /\ store' = store \ gone
    /\ last' = [op |-> "clear", result |-> Cardinality(gone),
                live |-> Cardinality({r \in store : NotExpired(r, now)})]
    /\ nhits' = [k \in Keys |->
                   IF \E r \in gone : r.cache_key = k THEN 0 ELSE nhits[k]]
    /\ UNCHANGED <<procs, lock, written, served, now, tz, enabled>>

\* live is history: how many of the rows the clear found were not expired
clear_all_cache ==
    /\ store' = {}
    /\ last' = [op |-> "clear", result |-> Cardinality(store),
                live |-> Cardinality({r \in store : NotExpired(r, now)})]
    /\ nhits' = [k \in Keys |-> 0]
    /\ UNCHANGED <<procs, lock, written, served, now, tz, enabled>>

\* time passes
Tick ==
    /\ now < StartClock + MaxTicks * TickSeconds
    /\ now' = now + TickSeconds
    /\ last' = [op |-> "tick"]
    /\ UNCHANGED <<procs, lock, written, served, store, tz, enabled, nhits>>

\* the callers that can be inside a cache operation at the same time
Procs == {1, 2}

\* no caller is inside a cache operation
NoCalls ==
    /\ procs = [p \in Procs |-> [pc |-> "idle", calls |-> 0, op |-> "none"]]
    /\ lock = 0
    /\ written = {}

Init ==
    /\ store = {}
    /\ now = StartClock
    /\ tz \in TzOffsets
    /\ enabled \in BOOLEAN
    /\ last = [op |-> "init"]
    /\ nhits = [k \in Keys |-> 0]
    /\ served = 0
    /\ NoCalls

Next ==
    \/ \E k \in Keys : get_cached_response(k)
    \/ \E k \in Keys, e \in Entries, ttl \in TTLs : cache_response(k, e, ttl)
    \/ cleanup_expired_cache
    \/ clear_all_cache
    \/ Tick

Spec == Init /\ [][Next]_vars

----------------------------------------------------------------------------
(* What the claims speak of *)

Val2(s, i) == (s[i] - 48) * 10 + (s[i + 1] - 48)

\* the local-time instant an expires_at text denotes
ExpiresInstant(row) ==
    (Val2(row.expires_at, 1) - 1) * SecondsPerDay + Val2(row.expires_at, 4) * 3600
        + Val2(row.expires_at, 7) * 60 + Val2(row.expires_at, 10)

\* the UTC instant a created_at text denotes
CreatedInstant(row) ==
    (Val2(row.created_at, 1) - 1) * SecondsPerDay + Val2(row.created_at, 4) * 3600
        + Val2(row.created_at, 7) * 60 + Val2(row.created_at, 10)

RowsOf(key) == {r \in store : r.cache_key = key}

IsHit == last.op = "get" /\ last.result # None

----------------------------------------------------------------------------
(* Claims about the cache store, checked under Spec *)

\* C1: a get never returns an entry whose expires_at has passed: the host's
\* clock is not beyond the instant the stored expires_at denotes.
C1_NoExpiredRead ==
    IsHit => \A r \in RowsOf(last.key) : datetime_now <= ExpiresInstant(r)

\* C2: a put with ttl > 0 followed immediately by a get of the same key returns
\* a hit with the stored payload and variant and hit_count = 1.
C2_RoundTrip ==
    [][(/\ last.op = "put" /\ last.result = TRUE /\ last.ttl > 0
        /\ last'.op = "get" /\ last'.key = last.key)
       => last'.result = [response_data |-> last.entry.response_data,
                          prompt_variant |-> last.entry.prompt_variant,
                          hit_count |-> 1,
                          cached |-> TRUE]]_vars

\* C3: the table holds at most one row per key, and after a put the row of the
\* key is the one just written: the caller's fields, hit_count 0, created_at
\* and expires_at of this put; nothing of an older row is left.
C3_Upsert ==
    /\ \A r1 \in store, r2 \in store : r1.cache_key = r2.cache_key => r1 = r2
    /\ (last.op = "put" /\ last.result = TRUE) =>
          /\ RowsOf(last.key) # {}
          /\ \A r \in RowsOf(last.key) :
                /\ r.hit_count = 0
                /\ r.cache_type = last.entry.cache_type
                /\ r.query = last.entry.query
                /\ json_loads(r.response_data) = last.entry.response_data
                /\ r.prompt_variant = last.entry.prompt_variant
                /\ r.created_at = sqlite_now(now)
                /\ r.expires_at = isoformat(datetime_now + last.ttl)

\* C3 witness: a put has replaced a row whose expiry the store had passed
C3_Witness ==
    /\ last.op = "put" /\ last.result = TRUE /\ last.was = "expired"
    /\ Cardinality(store) = 2

\* C4: hit_count is a natural number, 0 after a put and one more after every
\* get that returns a hit; the n-th hit reports n; a get that reports absent
\* leaves every hit_count as it was.
C4_HitCount ==
    /\ \A r \in store : r.hit_count \in Nat /\ r.hit_count = nhits[r.cache_key]
    /\ IsHit => /\ last.result.hit_count = nhits[last.key]
                /\ last.result.hit_count >= 1
                /\ \A r \in RowsOf(last.key) : r.hit_count = last.result.hit_count

\* C4 witness: the second hit in a row on a key, while another key holds a
\* row that was never read
C4_Witness ==
    /\ IsHit /\ last.result.hit_count = 2
    /\ \E r \in store : r.cache_key # last.key /\ r.hit_count = 0

\* C5: an entry whose expires_at is not after the present (ttl_seconds = 0, or
\* an expiry since passed) is returned by no get, and no such entry is left by
\* a sweep.
C5_ExpiryBoundary ==
    /\ IsHit => \A r \in RowsOf(last.key) : datetime_now < ExpiresInstant(r)
    /\ last.op = "sweep" => \A r \in store : datetime_now < ExpiresInstant(r)

\* C6: a sweep deletes exactly the entries whose expires_at is before the
\* present, leaves the others as they were, and returns how many it deleted.
C6_SweepExact ==
    [][last'.op = "sweep" =>
          /\ store' = {r \in store : ~(ExpiresInstant(r) < datetime_now)}
          /\ last'.result = Cardinality(store \ store')]_vars

\* C23: a get of a key the table has no row for returns None, as a result
\* and not as an exception, and leaves every row and every hit_count as it
\* was.
C23_MissingKeyAbsent ==
    [][(last'.op = "get" /\ RowsOf(last'.key) = {})
       => (last'.result = None /\ store' = store)]_vars

\* C23 witness: a get has reported absent for a key without a row while the
\* table, with caching enabled, holds a live row under another key that was
\* read before
C23_Witness ==
    /\ enabled
    /\ last.op = "get" /\ last.result = None /\ RowsOf(last.key) = {}
    /\ \E r \in store : NotExpired(r, now) /\ r.hit_count > 0

\* C24: a clear deletes every row, expired or not, and returns how many rows
\* there were; right after it the table is empty, a get of any key reports
\* absent and another clear returns 0.
C24_ClearAll ==
    [][/\ last'.op = "clear" => (store' = {} /\ last'.result = Cardinality(store))
       /\ (last.op = "clear" /\ last'.op = "get") => last'.result = None
       /\ (last.op = "clear" /\ last'.op = "clear") => last'.result = 0]_vars

\* C24 witness: a clear has deleted two rows, one of them expired and the
\* other not
C24_Witness ==
    last.op = "clear" /\ last.result = 2 /\ last.live = 1 /\ store = {}


\* C40: at every instant the get and the sweep agree on every row: a row is
\* either returned by a get of its key and kept by a sweep, or refused by the
\* get and deleted by the sweep, also when the row's expires_at is the present
\* instant; no row is refused by the get and kept by the sweep.
C40_GetSweepAgree ==
    [][/\ \A r \in store : NotExpired(r, now) <=> ~Expired(r, now)
       /\ last'.op = "sweep" =>
             store' = {r \in store : SelectLive(store, r.cache_key, now) # {}}
       /\ (last'.op = "get" /\ enabled /\ last'.result = None) =>
             \A r \in store : r.cache_key = last'.key => Expired(r, now)]_vars

\* C40 witness: a sweep has run at the very instant a row's expires_at
\* denotes and has kept the row, and a get of its key would return it
C40_Witness ==
    /\ last.op = "sweep"
    /\ \E r \in store :
          /\ ExpiresInstant(r) = datetime_now
          /\ SelectLive(store, r.cache_key, now) = {r}

----------------------------------------------------------------------------
(* sanitize_input as a function of its arguments: SpecSanitize draws the    *)
(* arguments and applies it.                                                *)

\* a text is made of at most this many pieces
MaxPieces == 3
\* a max_length short enough to cut the texts drawn
ShortLength == 5

\* "run", "Run", "code", " ", "   ", "\x00", "\x1c", "[INST]", "rye", "\t\n",
\* "\t\n "
SanPieces ==
    { <<114, 117, 110>>, <<82, 117, 110>>, <<99, 111, 100, 101>>, <<32>>,
      <<32, 32, 32>>, <<0>>, <<28>>, <<91, 73, 78, 83, 84, 93>>,
      <<114, 121, 101>>, <<9, 10>>, <<9, 10, 32>> }

RECURSIVE Concats(_, _)
Concats(pieces, n) ==
    IF n = 0 THEN {<<>>}
    ELSE LET P == Concats(pieces, n - 1) IN P \cup {p \o q : p \in P, q \in pieces}

\* "roleplay as a ", "Roleplay as ", "you are now a ", "pretend to be a ", "Pretend you are a ", "act as a "
RolePhrases ==
    {
      <<114, 111, 108, 101, 112, 108, 97, 121, 32, 97, 115, 32, 97, 32>>,
      <<82, 111, 108, 101, 112, 108, 97, 121, 32, 97, 115, 32>>,
      <<121, 111, 117, 32, 97, 114, 101, 32, 110, 111, 119, 32, 97, 32>>,
      <<112, 114, 101, 116, 101, 110, 100, 32, 116, 111, 32, 98, 101, 32, 97, 32>>,
      <<80, 114, 101, 116, 101, 110, 100, 32, 121, 111, 117, 32, 97, 114, 101, 32, 97, 32>>,
      <<97, 99, 116, 32, 97, 115, 32, 97, 32>> }

\* "baker", "bread baker", "sourdough expert", "hacker", "pirate", "different AI"
RoleTerms ==
    {
      <<98, 97, 107, 101, 114>>,
      <<98, 114, 101, 97, 100, 32, 98, 97, 107, 101, 114>>,
      <<115, 111, 117, 114, 100, 111, 117, 103, 104, 32, 101, 120, 112, 101, 114, 116>>,
      <<104, 97, 99, 107, 101, 114>>, <<112, 105, 114, 97, 116, 101>>,
      <<100, 105, 102, 102, 101, 114, 101, 110, 116, 32, 65, 73>> }

\* a phrase that asks for another role, and right after it who to be
RoleTexts == {phrase \o term : phrase \in RolePhrases, term \in RoleTerms}

\* a delimiter with a long run of white space inside: "[   INST]",
\* "<|\t\n  system|>"
DelimiterTexts ==
    { <<91, 32, 32, 32, 73, 78, 83, 84, 93>>,
      <<60, 124, 9, 10, 32, 32, 115, 121, 115, 116, 101, 109, 124, 62>> }

SanTexts == Concats(SanPieces, MaxPieces) \cup RoleTexts \cup DelimiterTexts

\* (max_length, field_name) as the callers pass them, and a short max_length
SanLimits ==
    { <<MAX_QUERY_LENGTH, "query">>, <<MAX_BREAD_NAME_LENGTH, "bread_name">>,
      <<ShortLength, "problem">> }

CacheIdle ==
    /\ store = {}
    /\ now = StartClock
    /\ tz = 0
    /\ enabled = TRUE
    /\ nhits = [k \in Keys |-> 0]
    /\ served = 0
    /\ NoCalls

InitSanitize ==
    /\ CacheIdle
    /\ last \in {[op |-> "input", text |-> t, max_length |-> l[1], field_name |-> l[2]] :
                    t \in SanTexts, l \in SanLimits}

Sanitize ==
    /\ last.op = "input"
    /\ last' = [op |-> "sanitize", text |-> last.text, max_length |-> last.max_length,
                field_name |-> last.field_name,
                result |-> sanitize_input(last.text, last.max_length, last.field_name)]
    /\ UNCHANGED <<procs, lock, written, served, store, now, tz, enabled, nhits>>

NextSanitize == Sanitize

SpecSanitize == InitSanitize /\ [][NextSanitize]_vars

\* C7: sanitize_input raises (HTTP 400, the detail naming field_name) exactly
\* when the input, trimmed, cut to max_length and freed of control characters,
\* matches one of the patterns; when it raises it returns no text, and when
\* no pattern matches it raises nothing.
C7_RejectIffMatch ==
    last.op = "sanitize" =>
        LET seen == RemoveControl(Truncate(strip(last.text), last.max_length))
            hit == \E k \in DOMAIN INJECTION_PATTERNS :
                       re_search(INJECTION_PATTERNS[k], seen)
        IN /\ last.result.raised <=> hit
           /\ last.result.raised =>
                 /\ DOMAIN last.result = {"raised", "status_code", "detail"}
                 /\ last.result.status_code = 400
                 /\ last.result.detail[2] = last.field_name
           /\ ~last.result.raised => DOMAIN last.result = {"raised", "value"}

\* C7 witness: an input is rejected for a phrase that only the removal of a
\* control character puts together
C7_Witness ==
    /\ last.op = "sanitize" /\ last.result.raised
    /\ ~MatchesInjection(last.text)
    /\ \E i \in DOMAIN last.text : last.text[i] \in ControlChars

----------------------------------------------------------------------------
(* generate_cache_key as a function of its arguments: SpecKey draws two     *)
(* texts and derives the keys of both under every kind.                     *)

\* a query is made of at most this many pieces
MaxKeyPieces == 3

\* "b", "B", " ", "\t "
KeyPieces == { <<98>>, <<66>>, <<32>>, <<9, 32>> }

KeyTexts == Concats(KeyPieces, MaxKeyPieces)

InitKey ==
    /\ CacheIdle
    /\ \E a \in KeyTexts :
          \E b \in {t \in KeyTexts : t = a \/ TextLess(a, t)} :
             last = [op |-> "input", a |-> a, b |-> b]

DeriveKeys ==
    /\ last.op = "input"
    /\ last' = [op |-> "keys", a |-> last.a, b |-> last.b,
                key_a |-> [K \in Kinds |-> generate_cache_key(last.a, K)],
                key_b |-> [K \in Kinds |-> generate_cache_key(last.b, K)]]
    /\ UNCHANGED <<procs, lock, written, served, store, now, tz, enabled, nhits>>

NextKey == DeriveKeys

SpecKey == InitKey /\ [][NextKey]_vars

\* the normal form of a text, as the claim words it: letters in lower case,
\* every inner run of white space one space, no white space at the ends
NormalForm(s) ==
    LET kept == {i \in DOMAIN s :
                    \/ s[i] \notin Whitespace
                    \/ /\ i > 1 /\ s[i - 1] \notin Whitespace
                       /\ \E j \in (i + 1)..Len(s) : s[j] \notin Whitespace}
        nth(k) == CHOOSE i \in kept : Cardinality({j \in kept : j <= i}) = k
        ch(c) == IF c \in Whitespace THEN 32
                 ELSE IF c \in 65..90 THEN c + 32 ELSE c
    IN [k \in 1..Cardinality(kept) |-> ch(s[nth(k)])]

----------------------------------------------------------------------------
(* The request handlers.  A handler is an async function that never awaits, *)
(* so the event loop runs it from its first line to its response in one     *)
(* step: SpecReq has one action for each of the four handlers.              *)

\* requests served in a run of SpecReq
MaxRequests == 3

\* what a handler passes to sanitize_input and to cache_response
Handlers ==
    [ask          |-> [field_name |-> "query", max_length |-> MAX_QUERY_LENGTH,
                       ttl_seconds |-> CACHE_TTL_ASK, parses |-> FALSE],
     recipe       |-> [field_name |-> "bread_name", max_length |-> MAX_BREAD_NAME_LENGTH,
                       ttl_seconds |-> CACHE_TTL_RECIPE, parses |-> TRUE],
     technique    |-> [field_name |-> "technique", max_length |-> MAX_BREAD_NAME_LENGTH,
                       ttl_seconds |-> 86400, parses |-> TRUE],
     troubleshoot |-> [field_name |-> "problem", max_length |-> MAX_QUERY_LENGTH,
                       ttl_seconds |-> CACHE_TTL_ASK, parses |-> TRUE]]

\* request texts: "A b", "a b", "run code", " "
RequestTexts ==
    { <<65, 32, 98>>, <<97, 32, 98>>,
      <<114, 117, 110, 32, 99, 111, 100, 101>>, <<32>> }

\* names of the active rows of prompt_variants
ActiveVariants == {"concise", "detailed"}

\* the variant a handler labels its answer with
VariantOf(kind, variant) ==
    IF kind = "ask" THEN variant
    ELSE IF kind = "recipe" THEN "recipe_default"
    ELSE IF kind = "technique" THEN "technique_default"
    ELSE "troubleshoot_default"

\* a JSON value that is no object: the array [1, 2]
JsonArray == [array |-> <<1, 2>>]

\* isinstance(data, dict)
IsJsonObject(data) == "array" \notin DOMAIN data

\* what client.messages.create does: it returns a text (a JSON object, a JSON
\* array, a JSON object inside prose, prose with a {...} span that is no JSON,
\* plain prose) or raises.  The object p1 has the fields the response models
\* require.
Upstreams ==
    {[raises |-> "no", text |-> t] :
        t \in { json_dumps([name |-> "p1"]),
                json_dumps(JsonArray),
                <<"prose", json_dumps([name |-> "p1"])>>,
                <<"prose", <<"braces">>>>,
                <<"prose">> }}
    \cup {[raises |-> e] : e \in {"APIConnectionError", "RateLimitError", "APIStatusError"}}

\* json.loads(response_text), and on JSONDecodeError json.loads of the
\* {...} span re.search finds
ParseResponse(text) ==
    IF text[1] = "json" THEN [status |-> 200, data |-> json_loads(text)]
    ELSE IF Len(text) = 1 THEN [status |-> 500, detail |-> "Failed to parse"]
    ELSE IF text[2][1] = "json" THEN [status |-> 200, data |-> json_loads(text[2])]
    ELSE [status |-> 500, detail |-> "JSONDecodeError"]

\* except clauses that answer every upstream error with the same status
ErrorStatus_All500(e) == 500

\* the except clauses of the handlers
ErrorStatus(e) ==
    IF e = "APIConnectionError" THEN 503
    ELSE IF e = "RateLimitError" THEN 429
    ELSE 500

\* handlers that refuse to answer while caching is off
Respond_NeedsCache(kind, data, variant, cached) ==
    IF ~enabled
    THEN [status |-> 503, detail |-> "cache disabled"]
    ELSE IF kind = "ask"
    THEN IF "response" \in DOMAIN data
         THEN [status |-> 200, response |-> data.response,
               prompt_variant |-> variant, cached |-> cached]
         ELSE [status |-> 500, detail |-> "KeyError"]
    ELSE IF ~IsJsonObject(data)
    THEN [status |-> 500, detail |-> IF kind = "recipe" THEN "AttributeError" ELSE "TypeError"]
    ELSE IF kind = "recipe"
    THEN [status |-> 200, data |-> data, prompt_variant |-> variant, cached |-> cached]
    ELSE IF kind = "technique"
    THEN [status |-> 200, data |-> data, cached |-> cached]
    ELSE [status |-> 200, data |-> data]

\* the response model a handler fills; response_id is left out
Respond(kind, data, variant, cached) ==
    IF kind = "ask"
    THEN IF "response" \in DOMAIN data
         THEN [status |-> 200, response |-> data.response,
               prompt_variant |-> variant, cached |-> cached]
         ELSE [status |-> 500, detail |-> "KeyError"]
    ELSE IF ~IsJsonObject(data)
    THEN [status |-> 500, detail |-> IF kind = "recipe" THEN "AttributeError" ELSE "TypeError"]
    ELSE IF kind = "recipe"
    THEN [status |-> 200, data |-> data, prompt_variant |-> variant, cached |-> cached]
    ELSE IF kind = "technique"
    THEN [status |-> 200, data |-> data, cached |-> cached]
    ELSE [status |-> 200, data |-> data]

\* sanitize_input(request.<field>, max_length=..., field_name=...) of every
\* handler on every request text
Sanitized ==
    [kind \in Kinds |->
        [text \in RequestTexts |->
            sanitize_input(text, Handlers[kind].max_length, Handlers[kind].field_name)]]

\* handlers that all derive their key under the kind "ask"
CacheKey_AskKind ==
    [kind \in Kinds |->
        [text \in {t \in RequestTexts : ~Sanitized[kind][t].raised} |->
            generate_cache_key(Sanitized[kind][text].value, "ask")]]

\* generate_cache_key(sanitized, kind) of every handler on every request text
\* the sanitizer lets through
CacheKey ==
    [kind \in Kinds |->
        [text \in {t \in RequestTexts : ~Sanitized[kind][t].raised} |->
            generate_cache_key(Sanitized[kind][text].value, kind)]]

\* what the storage does during the get of a request: it answers, or it fails
GetFaults == {"none", "get"}

\* what the storage does during the put of a request: it writes, or it fails
PutFaults == {"none", "put"}

\* cache_response with the except clause left out
StoragePut_NoExcept(st, row, fault) ==
    IF fault = "put"
    THEN [raised |-> TRUE, result |-> FALSE, store |-> st]
    ELSE [raised |-> FALSE, result |-> TRUE, store |-> InsertOrReplace(st, row)]

\* the try block of cache_response: the INSERT OR REPLACE and its commit, or
\* the except clause that prints the error and returns False
StoragePut(st, row, fault) ==
    IF fault = "put"
    THEN [raised |-> FALSE, result |-> FALSE, store |-> st]
    ELSE [raised |-> FALSE, result |-> TRUE, store |-> InsertOrReplace(st, row)]

\* a request from its first line to its response.  gets, upstream_calls and
\* puts count the calls of get_cached_response, client.messages.create and
\* cache_response the request makes.  What the storage, the variant draw and
\* the upstream do is chosen where the handler turns to them.
Request(kind, text) ==
    LET h == Handlers[kind]
        rq == [op |-> "request", kind |-> kind, text |-> text]
        none == [gets |-> 0, upstream_calls |-> 0, puts |-> 0]
    IN
    /\ served < MaxRequests
    /\ served' = served + 1
    /\ UNCHANGED <<procs, lock, written, now, tz, enabled, nhits>>
    /\ IF strip(text) = <<>>
       THEN /\ last' = rq @@ none @@
                       [response |-> [status |-> 400, detail |-> "cannot be empty"]]
            /\ UNCHANGED store
       ELSE
       LET s == Sanitized[kind][text] IN
       IF s.raised
       THEN /\ last' = rq @@ none @@
                       [response |-> [status |-> s.status_code, detail |-> s.detail]]
            /\ UNCHANGED store
       ELSE
       \E get_fault \in IF enabled THEN GetFaults ELSE {"none"} :
       LET cache_key == CacheKey[kind][text]
           found == IF enabled THEN SelectLive(store, cache_key, now) ELSE {}
           rk == rq @@ [query |-> s.value, cache_key |-> cache_key, gets |-> 1,
                        get_fault |-> (get_fault = "get")]
       IN
       IF get_fault = "get"
       THEN /\ last' = rk @@ [upstream_calls |-> 0, puts |-> 0,
                              response |-> [status |-> 500, detail |-> "sqlite3.Error"]]
            /\ UNCHANGED store
       ELSE
       IF found # {}
       THEN LET row == CHOOSE r \in found : TRUE
                cached == HitResult(row)
            IN
            /\ row.hit_count < MaxHits
            /\ store' = UpdateHitCount(store, cache_key)
            /\ last' = rk @@ [upstream_calls |-> 0, puts |-> 0, hit |-> row,
                              response |-> Respond(kind, cached.response_data,
                                                   cached.prompt_variant, TRUE)]
       ELSE
       \E variant \in IF kind = "ask" THEN ActiveVariants ELSE {VariantOf(kind, "")} :
       \E up \in Upstreams :
       IF up.raises # "no"
       THEN /\ last' = rk @@ [upstream_calls |-> 1, up |-> up, puts |-> 0,
                              response |-> [status |-> ErrorStatus(up.raises),
                                            detail |-> up.raises]]
            /\ UNCHANGED store
       ELSE
       LET parsed == IF h.parses THEN ParseResponse(up.text)
                     ELSE [status |-> 200, data |-> [response |-> up.text]]
       IN
       IF parsed.status # 200
       THEN /\ last' = rk @@ [upstream_calls |-> 1, up |-> up, puts |-> 0,
                              response |-> parsed]
            /\ UNCHANGED store
       ELSE
       \E put_fault \in IF enabled THEN PutFaults ELSE {"none"} :
       LET e == [cache_type |-> kind, query |-> s.value,
                 response_data |-> parsed.data,
                 prompt_variant |-> VariantOf(kind, variant)]
           put == IF enabled
                  THEN StoragePut(store,
                           NewRow(cache_key, e, h.ttl_seconds, now, datetime_now),
                           put_fault)
                  ELSE [raised |-> FALSE, result |-> FALSE, store |-> store]
           rp == rk @@ [upstream_calls |-> 1, up |-> up, puts |-> 1, entry |-> e,
                        put_fault |-> (put_fault = "put"),
                        put_result |-> put.result]
       IN
       /\ store' = put.store
       /\ last' = IF put.raised
                  THEN rp @@ [response |-> [status |-> 500, detail |-> "sqlite3.Error"]]
                  ELSE rp @@ [response |-> Respond(kind, parsed.data,
                                                   VariantOf(kind, variant), FALSE)]

ask_about_bread(text) == Request("ask", text)

generate_recipe(text) == Request("recipe", text)

explain_technique(text) == Request("technique", text)

troubleshoot_problem(text) == Request("troubleshoot", text)

InitReq ==
    /\ store = {}
    /\ now = StartClock
    /\ tz \in TzOffsets
    /\ enabled \in BOOLEAN
    /\ last = [op |-> "init"]
    /\ nhits = [k \in Keys |-> 0]
    /\ served = 0
    /\ NoCalls

NextReq ==
    \/ \E text \in RequestTexts : ask_about_bread(text)
    \/ \E text \in RequestTexts : generate_recipe(text)
    \/ \E text \in RequestTexts : explain_technique(text)
    \/ \E text \in RequestTexts : troubleshoot_problem(text)

SpecReq == InitReq /\ [][NextReq]_vars

\* per kind, the request texts that are not blank and that, trimmed, cut to
\* the handler's max_length and freed of control characters, match a pattern
RejectedTexts ==
    [kind \in Kinds |->
        {t \in RequestTexts :
            /\ strip(t) # <<>>
            /\ \E k \in DOMAIN INJECTION_PATTERNS :
                  re_search(INJECTION_PATTERNS[k],
                            RemoveControl(Truncate(strip(t), Handlers[kind].max_length)))}]

\* rq is a request whose input the sanitizer rejects
Rejected(rq) == rq.op = "request" /\ rq.text \in RejectedTexts[rq.kind]

\* C8: in each of the four handlers a request whose input the sanitizer
\* rejects ends there: it answers 400, calls neither the cache get, nor the
\* upstream, nor the cache put, and leaves every row and every hit_count of
\* the table as it was.
C8_RejectionTerminal ==
    [][Rejected(last') =>
          /\ store' = store
          /\ last'.response.status = 400
          /\ last'.gets = 0 /\ last'.upstream_calls = 0 /\ last'.puts = 0]_vars

\* C8 witness: a request is rejected while the table holds a row that has
\* been hit
C8_Witness ==
    /\ Rejected(last)
    /\ last.response.status = 400
    /\ \E r \in store : r.hit_count > 0

\* C9: for every text and every two distinct kinds the keys differ, so a
\* request that is served from the cache is served a row its own kind wrote.
C9_KindsApart ==
    (last.op = "request" /\ last.gets = 1) =>
        /\ \A K \in Kinds \ {last.kind} :
              generate_cache_key(last.query, K) # last.cache_key
        /\ \A r \in store : r.cache_key = last.cache_key => r.cache_type = last.kind
        /\ "hit" \in DOMAIN last => last.hit.cache_type = last.kind

\* C9 witness: a request is served from the cache while the table holds a row
\* of another kind for the same text
C9_Witness ==
    /\ last.op = "request" /\ "hit" \in DOMAIN last
    /\ last.response.status = 200
    /\ \E r \in store : r.cache_type # last.kind /\ r.query = last.query

----------------------------------------------------------------------------
(* Claims about a request that meets the cache, the upstream and storage   *)
(* faults, checked under SpecReq                                            *)

\* the row a request finds live under its key, if its get reads the table
LiveRowFor(rq) ==
    IF rq.op = "request" /\ rq.gets = 1 /\ ~rq.get_fault /\ enabled
    THEN SelectLive(store, rq.cache_key, now)
    ELSE {}

\* the payload a 200 response carries
PayloadOf(response) ==
    IF "response" \in DOMAIN response THEN [response |-> response.response]
    ELSE response.data

\* C11: a request that finds a live row answers with the payload of that row
\* (and, where the response has a variant label, the row's label), calls
\* neither the upstream nor the cache put, and changes nothing in the table
\* but the hit_count of that row, which grows by one.
C11_HitServesCache ==
    [][\A row \in LiveRowFor(last') :
          /\ last'.upstream_calls = 0
          /\ last'.puts = 0
          /\ store' = (store \ {row}) \cup {[row EXCEPT !.hit_count = @ + 1]}
          /\ last'.response.status = 200
          /\ PayloadOf(last'.response) = json_loads(row.response_data)
          /\ last'.kind \in {"ask", "recipe"} =>
                last'.response.prompt_variant = row.prompt_variant]_vars

\* C12: with caching enabled and no storage fault, a request that missed,
\* got an answer from the upstream and returned it is followed by a hit: the
\* same request, made at once, is served from the cache with the same
\* payload and without a call of the upstream.
C12_MissThenHit ==
    [][(/\ last.op = "request" /\ last.puts = 1 /\ last.put_result
        /\ last.response.status = 200
        /\ last'.op = "request" /\ last'.kind = last.kind /\ last'.text = last.text
        /\ ~last'.get_fault)
       => /\ last'.upstream_calls = 0
          /\ last'.response.status = 200
          /\ PayloadOf(last'.response) = PayloadOf(last.response)]_vars

\* the upstream text holds a JSON object, alone or as a {...} span in prose
HoldsJsonObject(text) ==
    \/ text[1] = "json" /\ IsJsonObject(text[2])
    \/ /\ text[1] = "prose" /\ Len(text) = 2
       /\ text[2][1] = "json" /\ IsJsonObject(text[2][2])

\* the upstream call of request rq failed, or its text holds no JSON object
\* although the handler needs one
UpstreamUnusable(rq) ==
    /\ rq.op = "request" /\ rq.upstream_calls = 1
    /\ \/ rq.up.raises # "no"
       \/ Handlers[rq.kind].parses /\ ~HoldsJsonObject(rq.up.text)

\* C13: a request whose upstream call fails, or whose upstream text holds no
\* JSON object even in its first {...} span, ends in an error and leaves the
\* table as it was.
C13_NoWriteOnFailure ==
    [][UpstreamUnusable(last') =>
          (store' = store /\ last'.response.status >= 400)]_vars

\* C16: when the storage fails during the get of a request, no error leaves
\* the get: the handler goes on, calls the upstream and answers as it does
\* after a miss.
C16_GetFailsOpen ==
    (last.op = "request" /\ last.gets = 1 /\ last.get_fault) =>
        /\ last.upstream_calls = 1
        /\ last.response # [status |-> 500, detail |-> "sqlite3.Error"]

\* C17: when the storage fails during the put of a request, the put returns
\* its failure result, nothing escapes it, it is called once, the table stays
\* as it was and the caller gets the response made from the upstream's
\* answer.
C17_PutFailsOpen ==
    [][(last'.op = "request" /\ last'.puts = 1 /\ last'.put_fault) =>
          /\ store' = store
          /\ last'.put_result = FALSE
          /\ last'.upstream_calls = 1
          /\ last'.response = Respond(last'.kind, last'.entry.response_data,
                                      last'.entry.prompt_variant, FALSE)]_vars

\* C17 witness: a request answers 200 with a fresh payload although its put
\* failed, and the row it meant to replace is still in the table
C17_Witness ==
    /\ last.op = "request" /\ last.puts = 1 /\ last.put_fault
    /\ last.response.status = 200
    /\ PayloadOf(last.response) = last.entry.response_data
    /\ \E r \in store : r.cache_key = last.cache_key

----------------------------------------------------------------------------
(* The service is stopped and started again.  CACHE_ENABLED is read from   *)
(* the environment at every start; the table is a file and outlives the     *)
(* process.                                                                 *)

Restart ==
    /\ enabled' \in BOOLEAN
    /\ last' = [op |-> "restart"]
    /\ UNCHANGED <<procs, lock, written, served, store, now, tz, nhits>>

NextRestart == Next \/ Restart

SpecRestart == Init /\ [][NextRestart]_vars

C15_DisabledPut ==
    [][(last'.op = "put" /\ ~enabled) =>
          (last'.result = TRUE /\ store' = store)]_vars

----------------------------------------------------------------------------
(* Callers that run at the same time.  Every call opens a connection of    *)
(* its own; between two statements of one call the statements of another   *)
(* call can run.  A SELECT sees what is committed.  A statement that writes *)
(* takes the write lock of the database file and holds it until its commit; *)
(* what it wrote is seen by the others from the commit on.  A writer that   *)
(* finds the lock taken waits, and gets "database is locked" when it has    *)
(* waited too long.                                                         *)

\* calls a caller makes
MaxCalls == 2

Done(p, fields) ==
    [pc |-> "done", calls |-> procs[p].calls, op |-> procs[p].op] @@ fields

Goto(p, pc, fields) == fields @@ [procs[p] EXCEPT !.pc = pc]

CanCall(p) == procs[p].pc \in {"idle", "done"} /\ procs[p].calls < MaxCalls

Called(p, pc, op, args) ==
    /\ CanCall(p)
    /\ procs' = [procs EXCEPT ![p] =
                    [pc |-> pc, calls |-> procs[p].calls + 1, op |-> op] @@ args]
    /\ UNCHANGED <<lock, written, store, now, tz, enabled, last, nhits, served>>

CallGet(p, key) == Called(p, "select", "get", [key |-> key])

CallPut(p, key, e, ttl) ==
    Called(p, "begin", "put", [key |-> key, entry |-> e, ttl |-> ttl])

CallSweep(p) == Called(p, "sweep_delete", "sweep", <<>>)

CallClear(p) == Called(p, "clear_delete", "clear", <<>>)

\* get_cached_response: the CACHE_ENABLED check, the SELECT and fetchone
get_select(p) ==
    /\ procs[p].pc = "select"
    /\ LET rows == SelectLive(store, procs[p].key, now) IN
       procs' = [procs EXCEPT ![p] =
                    IF ~enabled \/ rows = {}
                    THEN Done(p, [key |-> procs[p].key, result |-> None])
                    ELSE Goto(p, "update", [read |-> CHOOSE r \in rows : TRUE])]
    /\ UNCHANGED <<lock, written, store, now, tz, enabled, last, nhits, served>>

\* get_cached_response: the UPDATE takes the write lock
get_update(p) ==
    /\ procs[p].pc = "update"
    /\ lock = 0
    /\ lock' = p
    /\ procs' = [procs EXCEPT ![p] = Goto(p, "update_commit", <<>>)]
    /\ UNCHANGED <<written, store, now, tz, enabled, last, nhits, served>>

\* get_cached_response: conn.commit() and the return.  bumped is history:
\* the rows the UPDATE changes, as they were before it
get_commit(p) ==
    /\ procs[p].pc = "update_commit"
    /\ store' = UpdateHitCount(store, procs[p].key)
    /\ lock' = 0
    /\ procs' = [procs EXCEPT ![p] =
                    Done(p, [key |-> procs[p].key, read |-> procs[p].read,
                             bumped |-> {r \in store : r.cache_key = procs[p].key},
                             result |-> HitResult(procs[p].read)])]
    /\ UNCHANGED <<written, now, tz, enabled, last, nhits, served>>

\* cache_response: the CACHE_ENABLED check and expires_at = datetime.now() + ttl
put_begin(p) ==
    /\ procs[p].pc = "begin"
    /\ procs' = [procs EXCEPT ![p] =
                    IF ~enabled
                    THEN Done(p, [key |-> procs[p].key, result |-> FALSE])
                    ELSE Goto(p, "insert", [expires_at |-> isoformat(datetime_now + procs[p].ttl)])]
    /\ UNCHANGED <<lock, written, store, now, tz, enabled, last, nhits, served>>

\* cache_response: the INSERT OR REPLACE takes the write lock; created_at is
\* CURRENT_TIMESTAMP of the statement
put_insert(p) ==
    /\ procs[p].pc = "insert"
    /\ lock = 0
    /\ lock' = p
    /\ procs' = [procs EXCEPT ![p] =
                    Goto(p, "insert_commit",
                         [row |-> [NewRow(procs[p].key, procs[p].entry, procs[p].ttl,
                                          now, datetime_now)
                                      EXCEPT !.expires_at = procs[p].expires_at]])]
    /\ UNCHANGED <<written, store, now, tz, enabled, last, nhits, served>>

\* cache_response: conn.commit() and return True.  written is history: the
\* rows the puts have committed
put_commit(p) ==
    /\ procs[p].pc = "insert_commit"
    /\ store' = InsertOrReplace(store, procs[p].row)
    /\ written' = written \cup {procs[p].row}
    /\ lock' = 0
    /\ procs' = [procs EXCEPT ![p] =
                    Done(p, [key |-> procs[p].key, row |-> procs[p].row, result |-> TRUE])]
    /\ UNCHANGED <<now, tz, enabled, last, nhits, served>>

\* cleanup_expired_cache: the DELETE takes the write lock
sweep_delete(p) ==
    /\ procs[p].pc = "sweep_delete"
    /\ lock = 0
    /\ lock' = p
    /\ procs' = [procs EXCEPT ![p] =
                    Goto(p, "sweep_commit", [gone |-> {r \in store : Expired(r, now)}])]
    /\ UNCHANGED <<written, store, now, tz, enabled, last, nhits, served>>

\* cleanup_expired_cache: conn.commit() and return deleted
sweep_commit(p) ==
    /\ procs[p].pc = "sweep_commit"
    /\ store' = store \ procs[p].gone
    /\ lock' = 0
    /\ procs' = [procs EXCEPT ![p] = Done(p, [result |-> Cardinality(procs[p].gone)])]
    /\ UNCHANGED <<written, now, tz, enabled, last, nhits, served>>

\* clear_all_cache: the DELETE takes the write lock
clear_delete(p) ==
    /\ procs[p].pc = "clear_delete"
    /\ lock = 0
    /\ lock' = p
    /\ procs' = [procs EXCEPT ![p] = Goto(p, "clear_commit", [gone |-> store])]
    /\ UNCHANGED <<written, store, now, tz, enabled, last, nhits, served>>

\* clear_all_cache: conn.commit() and return deleted
clear_commit(p) ==
    /\ procs[p].pc = "clear_commit"
    /\ store' = store \ procs[p].gone
    /\ lock' = 0
    /\ procs' = [procs EXCEPT ![p] = Done(p, [result |-> Cardinality(procs[p].gone)])]
    /\ UNCHANGED <<written, now, tz, enabled, last, nhits, served>>

\* the write lock stays taken for longer than a writer waits: sqlite3 raises
\* OperationalError.  cache_response catches it and returns False; from the
\* other calls it escapes
Busy(p) ==
    /\ procs[p].pc \in {"update", "insert", "sweep_delete", "clear_delete"}
    /\ lock # 0
    /\ procs' = [procs EXCEPT ![p] =
                    IF procs[p].op = "put"
                    THEN Done(p, [key |-> procs[p].key, result |-> FALSE])
                    ELSE Done(p, [raised |-> "OperationalError"])]
    /\ UNCHANGED <<lock, written, store, now, tz, enabled, last, nhits, served>>

\* the key the concurrent callers meet on
SharedKeys == {"k1"}

\* the ttl_seconds the handlers pass
HandlerTTLs == {CACHE_TTL_ASK, CACHE_TTL_RECIPE}

InitConc ==
    /\ store = {}
    /\ now = StartClock
    /\ tz \in TzOffsets
    /\ enabled \in BOOLEAN
    /\ last = [op |-> "init"]
    /\ nhits = [k \in Keys |-> 0]
    /\ served = 0
    /\ NoCalls

NextConc ==
    \/ \E p \in Procs, k \in SharedKeys : CallGet(p, k)
    \/ \E p \in Procs, k \in SharedKeys, e \in Entries, ttl \in HandlerTTLs :
           CallPut(p, k, e, ttl)
    \/ \E p \in Procs : CallSweep(p)
    \/ \E p \in Procs : CallClear(p)
    \/ \E p \in Procs : get_select(p)
    \/ \E p \in Procs : get_update(p)
    \/ \E p \in Procs : get_commit(p)
    \/ \E p \in Procs : put_begin(p)
    \/ \E p \in Procs : put_insert(p)
    \/ \E p \in Procs : put_commit(p)
    \/ \E p \in Procs : sweep_delete(p)
    \/ \E p \in Procs : sweep_commit(p)
    \/ \E p \in Procs : clear_delete(p)
    \/ \E p \in Procs : clear_commit(p)
    \/ \E p \in Procs : Busy(p)

SpecConc == InitConc /\ [][NextConc]_vars

----------------------------------------------------------------------------
(* Claims about concurrent callers, checked under SpecConc *)

\* caller p has returned from a get with a hit
GotHit(p) ==
    /\ procs[p].op = "get" /\ procs[p].pc = "done"
    /\ "result" \in DOMAIN procs[p] /\ procs[p].result # None

\* C18: however two puts on one key interleave, the table holds at most one
\* row for the key at any moment, and the kind, query, payload, variant,
\* created_at and expires_at of that row are those of one put; its hit_count
\* starts from that put's 0.
C18_PutAtomic ==
    /\ \A r1 \in store, r2 \in store : r1.cache_key = r2.cache_key => r1 = r2
    /\ \A r \in store : r.hit_count \in Nat /\ [r EXCEPT !.hit_count = 0] \in written

\* C18 witness: a put holds the write lock with its row not yet committed
\* while another put of another entry for the same key is under way and the
\* table holds the row of an earlier put for that key
C18_Witness ==
    \E p \in Procs, q \in Procs :
        /\ procs[p].op = "put" /\ procs[p].pc = "insert_commit" /\ lock = p
        /\ procs[q].op = "put" /\ procs[q].pc = "insert"
        /\ procs[q].key = procs[p].key /\ procs[q].entry # procs[p].entry
        /\ \E r \in store : r.cache_key = procs[p].key /\ r # procs[p].row

\* C19: however gets interleave with puts, sweeps and clears, the payload
\* and the variant a hit returns are together those of one committed put for
\* the key.
C19_HitConsistent ==
    \A p \in Procs :
        GotHit(p) =>
            \E w \in written :
                /\ w.cache_key = procs[p].key
                /\ json_loads(w.response_data) = procs[p].result.response_data
                /\ w.prompt_variant = procs[p].result.prompt_variant

\* C19 witness: a get returns the payload and variant of a row that a put of
\* another caller replaced while the get was under way
C19_Witness ==
    \E p \in Procs :
        /\ GotHit(p)
        /\ procs[p].result.prompt_variant = "recipe_default"
        /\ \E r \in procs[p].bumped :
              /\ r.prompt_variant = "concise"
              /\ r.response_data # procs[p].read.response_data

\* C20: the hit_count increment of a get goes to the row whose payload the
\* get returns, never to a row written after the get read the table.
C20_IncrementSameEntry ==
    \A p \in Procs :
        GotHit(p) =>
            \A r \in procs[p].bumped :
                [r EXCEPT !.hit_count = 0] = [procs[p].read EXCEPT !.hit_count = 0]

----------------------------------------------------------------------------
(* Requests that run at the same time, each in a worker of its own on the   *)
(* one database file.  A request is the handler's code from its first line  *)
(* to its response; its steps are the statements at which the storage or    *)
(* the upstream is met, as in SpecConc.                                     *)

\* requests a worker serves
MaxRaceRequests == 1

\* the handlers and the request texts of the race: "A b" and "a b" have one
\* cache key per kind
RaceKinds == {"ask", "recipe"}

RaceTexts == { <<65, 32, 98>>, <<97, 32, 98>> }

\* the response of the request of worker p, and the worker is free again
Responded(p, fields) ==
    [pc |-> "done", calls |-> procs[p].calls, op |-> "request",
     kind |-> procs[p].kind, text |-> procs[p].text] @@ fields

\* the handler up to generate_cache_key: the empty check and sanitize_input
req_sanitize(p, kind, text) ==
    /\ procs[p].pc \in {"idle", "done"}
    /\ procs[p].calls < MaxRaceRequests
    /\ LET s == Sanitized[kind][text]
           rq == [calls |-> procs[p].calls + 1, op |-> "request",
                  kind |-> kind, text |-> text]
       IN
       procs' = [procs EXCEPT ![p] =
                    IF strip(text) = <<>>
                    THEN rq @@ [pc |-> "done",
                                response |-> [status |-> 400, detail |-> "cannot be empty"]]
                    ELSE IF s.raised
                    THEN rq @@ [pc |-> "done",
                                response |-> [status |-> s.status_code, detail |-> s.detail]]
                    ELSE rq @@ [pc |-> "select", query |-> s.value,
                                cache_key |-> CacheKey[kind][text]]]
    /\ UNCHANGED <<lock, written, store, now, tz, enabled, last, nhits, served>>

\* get_cached_response: the CACHE_ENABLED check, the SELECT and fetchone
req_select(p) ==
    /\ procs[p].op = "request" /\ procs[p].pc = "select"
    /\ LET rows == SelectLive(store, procs[p].cache_key, now) IN
       procs' = [procs EXCEPT ![p] =
                    IF ~enabled \/ rows = {}
                    THEN Goto(p, "upstream", [miss |-> TRUE])
                    ELSE Goto(p, "update", [miss |-> FALSE,
                                            read |-> CHOOSE r \in rows : TRUE])]
    /\ UNCHANGED <<lock, written, store, now, tz, enabled, last, nhits, served>>

\* get_cached_response: the UPDATE takes the write lock
req_update(p) ==
    /\ procs[p].op = "request" /\ procs[p].pc = "update"
    /\ lock = 0
    /\ lock' = p
    /\ procs' = [procs EXCEPT ![p] = Goto(p, "update_commit", <<>>)]
    /\ UNCHANGED <<written, store, now, tz, enabled, last, nhits, served>>

\* get_cached_response: conn.commit() and the return; the handler answers
\* from the cached payload
req_hit(p) ==
    /\ procs[p].op = "request" /\ procs[p].pc = "update_commit"
    /\ store' = UpdateHitCount(store, procs[p].cache_key)
    /\ lock' = 0
    /\ LET cached == HitResult(procs[p].read) IN
       procs' = [procs EXCEPT ![p] =
                    Responded(p, [cache_key |-> procs[p].cache_key, miss |-> FALSE,
                                  puts |-> 0,
                                  response |-> Respond(procs[p].kind, cached.response_data,
                                                       cached.prompt_variant, TRUE)])]
    /\ UNCHANGED <<written, now, tz, enabled, last, nhits, served>>

\* the variant draw, client.messages.create and the parsing of its text
req_upstream(p) ==
    /\ procs[p].op = "request" /\ procs[p].pc = "upstream"
    /\ \E variant \in IF procs[p].kind = "ask" THEN ActiveVariants
                      ELSE {VariantOf(procs[p].kind, "")} :
       \E up \in Upstreams :
       LET kind == procs[p].kind
           parsed == IF up.raises # "no"
                     THEN [status |-> ErrorStatus(up.raises), detail |-> up.raises]
                     ELSE IF Handlers[kind].parses THEN ParseResponse(up.text)
                     ELSE [status |-> 200, data |-> [response |-> up.text]]
           own == [cache_key |-> procs[p].cache_key, miss |-> TRUE, up |-> up,
                   variant |-> VariantOf(kind, variant)]
       IN
       procs' = [procs EXCEPT ![p] =
                    IF parsed.status # 200
                    THEN Responded(p, own @@ [puts |-> 0, response |-> parsed])
                    ELSE Goto(p, "begin",
                              own @@ [entry |-> [cache_type |-> kind, query |-> procs[p].query,
                                                 response_data |-> parsed.data,
                                                 prompt_variant |-> VariantOf(kind, variant)]])]
    /\ UNCHANGED <<lock, written, store, now, tz, enabled, last, nhits, served>>

\* what the handler returns after cache_response, whatever cache_response
\* returned
Fresh(p, put_result, order) ==
    Responded(p, [cache_key |-> procs[p].cache_key, miss |-> TRUE, up |-> procs[p].up,
                  variant |-> procs[p].variant, entry |-> procs[p].entry,
                  puts |-> 1, put_result |-> put_result, order |-> order,
                  response |-> Respond(procs[p].kind, procs[p].entry.response_data,
                                       procs[p].variant, FALSE)])

\* cache_response: the CACHE_ENABLED check and expires_at = datetime.now() + ttl
req_put_begin(p) ==
    /\ procs[p].op = "request" /\ procs[p].pc = "begin"
    /\ procs' = [procs EXCEPT ![p] =
                    IF ~enabled
                    THEN Fresh(p, FALSE, 0)
                    ELSE Goto(p, "insert",
                              [expires_at |-> isoformat(datetime_now
                                                 + Handlers[procs[p].kind].ttl_seconds)])]
    /\ UNCHANGED <<lock, written, store, now, tz, enabled, last, nhits, served>>

\* cache_response: the INSERT OR REPLACE takes the write lock
req_put_insert(p) ==
    /\ procs[p].op = "request" /\ procs[p].pc = "insert"
    /\ lock = 0
    /\ lock' = p
    /\ procs' = [procs EXCEPT ![p] =
                    Goto(p, "insert_commit",
                         [row |-> [NewRow(procs[p].cache_key, procs[p].entry,
                                          Handlers[procs[p].kind].ttl_seconds,
                                          now, datetime_now)
                                      EXCEPT !.expires_at = procs[p].expires_at]])]
    /\ UNCHANGED <<written, store, now, tz, enabled, last, nhits, served>>

\* history: the place of the latest commit among the commits of the puts
LastOrder ==
    LET orders == {0} \cup {procs[q].order : q \in {q \in Procs : "order" \in DOMAIN procs[q]}}
    IN CHOOSE m \in orders : \A n \in orders : n <= m

\* cache_response: conn.commit() and return True; the handler answers.  order
\* is history: the place of this commit among the commits of the puts
req_put_commit(p) ==
    /\ procs[p].op = "request" /\ procs[p].pc = "insert_commit"
    /\ store' = InsertOrReplace(store, procs[p].row)
    /\ written' = written \cup {procs[p].row}
    /\ lock' = 0
    /\ procs' = [procs EXCEPT ![p] =
                    Fresh(p, TRUE, 1 + LastOrder)]
    /\ UNCHANGED <<now, tz, enabled, last, nhits, served>>

\* the write lock stays taken for longer than a writer waits: sqlite3 raises
\* OperationalError.  cache_response catches it and returns False, and the
\* handler answers; from get_cached_response it escapes the handler
req_busy(p) ==
    /\ procs[p].op = "request" /\ procs[p].pc \in {"update", "insert"}
    /\ lock # 0
    /\ procs' = [procs EXCEPT ![p] =
                    IF procs[p].pc = "insert"
                    THEN Fresh(p, FALSE, 0)
                    ELSE Responded(p, [cache_key |-> procs[p].cache_key, miss |-> FALSE,
                                       puts |-> 0,
                                       response |-> [status |-> 500,
                                                     detail |-> "OperationalError"]])]
    /\ UNCHANGED <<lock, written, store, now, tz, enabled, last, nhits, served>>

InitRace ==
    /\ store = {}
    /\ now = StartClock
    /\ tz \in TzOffsets
    /\ enabled \in BOOLEAN
    /\ last = [op |-> "init"]
    /\ nhits = [k \in Keys |-> 0]
    /\ served = 0
    /\ NoCalls

NextRace ==
    \/ \E p \in Procs, kind \in RaceKinds, text \in RaceTexts : req_sanitize(p, kind, text)
    \/ \E p \in Procs : req_select(p)
    \/ \E p \in Procs : req_update(p)
    \/ \E p \in Procs : req_hit(p)
    \/ \E p \in Procs : req_upstream(p)
    \/ \E p \in Procs : req_put_begin(p)
    \/ \E p \in Procs : req_put_insert(p)
    \/ \E p \in Procs : req_put_commit(p)
    \/ \E p \in Procs : req_busy(p)

SpecRace == InitRace /\ [][NextRace]_vars

----------------------------------------------------------------------------
(* Claims about concurrent requests, checked under SpecRace *)

\* request p has its response after a miss, an upstream call and a put
MissedAndPut(p) ==
    /\ procs[p].op = "request" /\ procs[p].pc = "done"
    /\ "puts" \in DOMAIN procs[p] /\ procs[p].puts = 1

\* both requests are answered: each missed on the same key, called the
\* upstream and put, with caching enabled
BothMissedAndPut ==
    /\ enabled
    /\ \A p \in Procs : MissedAndPut(p)
    /\ procs[1].cache_key = procs[2].cache_key

\* C21: when two requests with the same cache key both miss, call the
\* upstream and put, then once both are answered the table holds exactly one
\* row for the key, with the payload and variant of the put that committed
\* last, and each request got the response its own upstream answer gives.
C21_LastWriterWins ==
    BothMissedAndPut =>
        /\ \E p \in Procs :
              /\ procs[p].order > 0
              /\ \A q \in Procs : procs[q].order <= procs[p].order
              /\ \E r \in store :
                    /\ RowsOf(procs[p].cache_key) = {r}
                    /\ json_loads(r.response_data) = procs[p].entry.response_data
                    /\ r.prompt_variant = procs[p].entry.prompt_variant
                    /\ r.query = procs[p].entry.query
        /\ \A p \in Procs :
              procs[p].response =
                  Respond(procs[p].kind,
                          IF Handlers[procs[p].kind].parses
                          THEN ParseResponse(procs[p].up.text).data
                          ELSE [response |-> procs[p].up.text],
                          procs[p].variant, FALSE)

\* C21 witness: both requests missed and put, both puts committed, and the
\* two wrote different payloads
C21_Witness ==
    /\ BothMissedAndPut
    /\ \A p \in Procs : procs[p].order > 0
    /\ procs[1].entry.response_data # procs[2].entry.response_data
    /\ procs[1].response.status = 200 /\ procs[2].response.status = 200

----------------------------------------------------------------------------
(* Claims about the rows the handlers write, checked under SpecReq *)

\* C22: in every row of the table the instant the stored expires_at denotes
\* is after the instant the stored created_at denotes, for the ttl_seconds
\* the handlers pass.
C22_ExpiresAfterCreated ==
    \A r \in store : CreatedInstant(r) < ExpiresInstant(r)

\* C30: whatever the kind of the request, a response served from the cache
\* carries the cache-hit marker and a freshly generated response carries it
\* as false.
C30_HitMarker ==
    (last.op = "request" /\ last.response.status = 200) =>
        /\ "cached" \in DOMAIN last.response
        /\ last.response.cached <=> "hit" \in DOMAIN last

----------------------------------------------------------------------------
(* Claims about what sanitize_input does to a text, checked under           *)
(* SpecSanitize                                                             *)

\* the arguments and the result of the call
Rejects(text) == sanitize_input(text, last.max_length, last.field_name).raised

\* C25: when a text is rejected, the text with its letters in lower case is
\* rejected too (a text that differs from it in letter case only).
C25_CaseInsensitive ==
    (last.op = "sanitize" /\ last.result.raised) => Rejects(lower(last.text))

\* the first max_length characters of the trimmed input of the call
SeenPrefix ==
    LET trimmed == strip(last.text) IN
    SubSeq(trimmed, 1, Min(Len(trimmed), last.max_length))

\* C26: the input is trimmed and then cut to max_length characters before the
\* patterns are tried: it is rejected exactly when its first max_length
\* characters (trimmed, control characters removed) match a pattern; a
\* trimmed input longer than max_length is cut to exactly max_length
\* characters; the text returned has at most max_length characters.
C26_TruncateBeforeMatch ==
    last.op = "sanitize" =>
        /\ last.result.raised <=> MatchesInjection(RemoveControl(SeenPrefix))
        /\ ~last.result.raised =>
              /\ last.result.value = CollapseWhitespace(RemoveControl(SeenPrefix))
              /\ Len(last.result.value) <= last.max_length
              /\ (/\ Len(strip(last.text)) > last.max_length
                  /\ RemoveControl(SeenPrefix) = SeenPrefix
                  /\ CollapseWhitespace(SeenPrefix) = SeenPrefix)
                 => Len(last.result.value) = last.max_length

\* C26 witness: an input is accepted and returned with exactly max_length
\* characters although, uncut, it holds a blocked phrase: the phrase lies
\* beyond the cut
C26_Witness ==
    /\ last.op = "sanitize" /\ ~last.result.raised
    /\ Len(strip(last.text)) > last.max_length
    /\ Len(last.result.value) = last.max_length
    /\ MatchesInjection(RemoveControl(strip(last.text)))
    /\ ~MatchesInjection(SubSeq(strip(last.text), 1, last.max_length))

\* the ranges of the character class sanitize_input strips, as the
\* specification of the service lists them
StrippedRanges == (0..8) \cup {11, 12} \cup (14..31) \cup {127}

\* the first max_length characters of the trimmed input without the
\* characters of the stripped ranges
Kept == SelectSeq(SeenPrefix, LAMBDA c : c \notin StrippedRanges)

\* s has no run of three or more white space characters
NoLongRun(s) ==
    \A i \in 1..(Len(s) - 2) :
        ~(s[i] \in Whitespace /\ s[i + 1] \in Whitespace /\ s[i + 2] \in Whitespace)

\* C27: control characters are removed before the patterns are tried and are
\* not in the text returned: a phrase that matches once the control characters
\* between its letters are taken out is rejected; an accepted text comes back
\* without any character of the stripped ranges, and with its tabs and
\* newlines where they were (runs of three or more white space characters
\* aside, which C28 speaks of).
C27_ControlStripped ==
    last.op = "sanitize" =>
        /\ MatchesInjection(Kept) => last.result.raised
        /\ ~last.result.raised =>
              /\ \A i \in DOMAIN last.result.value :
                    last.result.value[i] \notin StrippedRanges
              /\ NoLongRun(Kept) => last.result.value = Kept

\* C27 witness: an accepted input with a control character in it comes back
\* without it and with its tab and newline
C27_Witness ==
    /\ last.op = "sanitize" /\ ~last.result.raised
    /\ \E i \in DOMAIN last.text : last.text[i] \in StrippedRanges
    /\ \E i \in DOMAIN last.result.value :
          /\ i < Len(last.result.value)
          /\ last.result.value[i] = 9 /\ last.result.value[i + 1] = 10
    /\ \E i \in DOMAIN last.result.value : last.result.value[i] = 114

\* the first offsets of the maximal runs of three or more white space
\* characters of s
LongRunStarts(s) ==
    {i \in 1..(Len(s) - 2) :
        /\ s[i] \in Whitespace /\ s[i + 1] \in Whitespace /\ s[i + 2] \in Whitespace
        /\ (i = 1 \/ s[i - 1] \notin Whitespace)}

\* the offset of the last character of the run of white space that starts
\* at offset i
RunLast(s, i) ==
    CHOOSE j \in i..Len(s) :
        /\ \A k \in i..j : s[k] \in Whitespace
        /\ (j = Len(s) \/ s[j + 1] \notin Whitespace)

\* s with every maximal run of three or more white space characters replaced
\* by two spaces
TwoForLongRuns(s) ==
    LET starts == LongRunStarts(s)
        two == {j \in DOMAIN s : \E i \in starts : j \in {i, i + 1}}
        dropped == {j \in DOMAIN s : \E i \in starts : j \in (i + 2)..RunLast(s, i)}
        marked == [j \in DOMAIN s |-> <<j, IF j \in two THEN 32 ELSE s[j]>>]
        left == SelectSeq(marked, LAMBDA x : x[1] \notin dropped)
    IN [k \in DOMAIN left |-> left[k][2]]

\* C28: in an accepted text every maximal run of three or more white space
\* characters is replaced by exactly two spaces and the runs of one or two
\* are left as they are; the text returned has no run of three or more.
C28_WhitespaceCollapsed ==
    (last.op = "sanitize" /\ ~last.result.raised) =>
        /\ last.result.value = TwoForLongRuns(Kept)
        /\ NoLongRun(last.result.value)

\* C28 witness: an accepted text in which a run that starts with a tab and a
\* newline became two spaces
C28_Witness ==
    /\ last.op = "sanitize" /\ ~last.result.raised
    /\ LongRunStarts(Kept) # {}
    /\ \E i \in LongRunStarts(Kept) : Kept[i] = 9
    /\ \E i \in 1..(Len(last.result.value) - 1) :
          last.result.value[i] = 32 /\ last.result.value[i + 1] = 32
    /\ Len(last.result.value) < Len(Kept)

\* C29: a phrase that asks for another role is let through when a bread or
\* baking term follows it at once ("act as a baker") and is rejected when
\* another term follows it; the whole text is within max_length.
C29_DomainCarveOut ==
    last.op = "sanitize" =>
        \A phrase \in RolePhrases, term \in RoleTerms :
            (last.text = phrase \o term /\ Len(last.text) <= last.max_length)
                => (last.result.raised <=> ~is_bread_related(term))


\* C38: a text sanitize_input returns for an input that is not empty matches
\* none of the patterns: replacing the long runs of white space, which is done
\* after the patterns were tried, makes no match.
C38_OutputClean ==
    (last.op = "sanitize" /\ last.text # <<>> /\ ~last.result.raised) =>
        \A k \in DOMAIN INJECTION_PATTERNS :
            ~re_search(INJECTION_PATTERNS[k], last.result.value)

\* C38 witness: a delimiter with a long run of white space inside is let
\* through and returned with two spaces in the place of the run
C38_Witness ==
    /\ last.op = "sanitize" /\ ~last.result.raised
    /\ last.text \in DelimiterTexts
    /\ last.max_length >= Len(last.text)
    /\ last.result.value # last.text
    /\ Len(last.result.value) < Len(last.text)


\* C39: sanitizing a text that sanitize_input has returned, with the same
\* max_length, raises nothing and returns that text again; in particular the
\* text returned has no white space at its ends.
C39_Idempotent ==
    (last.op = "sanitize" /\ ~last.result.raised) =>
        LET again == sanitize_input(last.result.value, last.max_length, last.field_name)
        IN /\ ~again.raised
           /\ again.value = last.result.value
           /\ strip(last.result.value) = last.result.value

----------------------------------------------------------------------------
(* Claims about the handlers and the upstream, checked under SpecReq *)

\* C31: a request calls client.messages.create at most once, whatever the
\* call does; when the call raises, the request ends there, without a put,
\* with 503 for a connection error, 429 for a rate limit error and 500 for
\* another status error.
C31_NoRetry ==
    last.op = "request" =>
        /\ last.upstream_calls <= 1
        /\ ("up" \in DOMAIN last /\ last.up.raises # "no") =>
              /\ last.upstream_calls = 1 /\ last.puts = 0
              /\ last.up.raises = "APIConnectionError" => last.response.status = 503
              /\ last.up.raises = "RateLimitError" => last.response.status = 429
              /\ last.up.raises = "APIStatusError" => last.response.status = 500

\* C31 witness: the third request of a run ends with 429 after one upstream
\* call that raised the rate limit error
C31_Witness ==
    /\ served = MaxRequests
    /\ last.op = "request" /\ "up" \in DOMAIN last
    /\ last.up.raises = "RateLimitError"
    /\ last.response.status = 429 /\ last.upstream_calls = 1


\* the key of a query under a kind, as the claim words it: the digest of the
\* kind, a colon and the normal form of the query
DerivedKey(query, kind) ==
    [sha256 |-> KindText[kind] \o <<58>> \o NormalForm(query)]

\* C37: every row the handlers have stored has the key derived from its own
\* query and kind, the query being the sanitized text of the request that
\* wrote it and the kind that of its handler; so a request that hits a row has
\* the row's kind and a sanitized text with the normal form of the row's query.
C37_KeyDerived ==
    /\ \A r \in store : r.cache_key = DerivedKey(r.query, r.cache_type)
    /\ (last.op = "request" /\ last.puts = 1 /\ last.put_result) =>
          \E r \in store :
              /\ r.cache_key = last.cache_key
              /\ r.query = last.query /\ r.cache_type = last.kind
    /\ (last.op = "request" /\ "hit" \in DOMAIN last) =>
          /\ last.hit.cache_type = last.kind
          /\ NormalForm(last.hit.query) = NormalForm(last.query)

\* C37 witness: a request is served from a row that another text with the
\* same normal form stored, while the table also holds a row of another kind
\* for the same text
C37_Witness ==
    /\ last.op = "request" /\ "hit" \in DOMAIN last
    /\ last.hit.query # last.query
    /\ \E r \in store : r.query = last.hit.query /\ r.cache_type # last.kind

----------------------------------------------------------------------------
(* get_cache_stats as a function of the table: SpecStats draws a table and  *)
(* reads its statistics.                                                    *)

\* rows of a drawn table whose expires_at is ahead
MaxLive == 12
\* rows of a drawn table whose expires_at has passed
MaxExpired == 2
\* hit_count values of the drawn rows are below this
HitKinds == 3

\* LIMIT 10
TopLimit == 10
\* row["query"][:50]
QueryPrefixLength == 50

\* the query of the row with key i: 60 characters for an even i, 3 for an odd
StatsQuery(i) == [j \in 1..(IF i % 2 = 0 THEN 60 ELSE 3) |-> 97 + i]

\* a table of n rows with expires_at ahead (keys 1..n, written now with a ttl
\* of three days) and m rows with expires_at passed (keys n+1..n+m, written a
\* day ago with a ttl of an hour); the row with key i has been hit
\* (a * i + b) % HitKinds times
StatsTable(n, m, a, b) ==
    {[NewRow(i,
             [cache_type |-> IF i % 3 = 0 THEN "recipe" ELSE "ask",
              query |-> StatsQuery(i),
              response_data |-> [response |-> "a1"],
              prompt_variant |-> "concise"],
             IF i <= n THEN 3 * SecondsPerDay ELSE CACHE_TTL_ASK,
             IF i <= n THEN StartClock ELSE 0,
             IF i <= n THEN StartClock ELSE 0)
         EXCEPT !.hit_count = (a * i + b) % HitKinds] : i \in 1..(n + m)}

\* SUM(hit_count) over the rows of S
RECURSIVE SumHitCount(_)
SumHitCount(S) ==
    IF S = {} THEN 0
    ELSE LET r == CHOOSE r \in S : TRUE IN r.hit_count + SumHitCount(S \ {r})

\* ORDER BY hit_count DESC: r comes before q.  SQLite does not say in which
\* order rows of equal hit_count come; tie is the order it happens to take
\* them in, up or down the keys
ComesBefore(r, q, tie) ==
    \/ r.hit_count > q.hit_count
    \/ /\ r.hit_count = q.hit_count
       /\ IF tie = "up" THEN r.cache_key <= q.cache_key ELSE r.cache_key >= q.cache_key

\* ORDER BY hit_count DESC without the LIMIT
RECURSIVE OrderByHitsLimit_NoLimit(_, _, _)
OrderByHitsLimit_NoLimit(S, k, tie) ==
    IF S = {} THEN <<>>
    ELSE LET r == CHOOSE r \in S : \A q \in S : ComesBefore(r, q, tie)
         IN <<r>> \o OrderByHitsLimit_NoLimit(S \ {r}, k, tie)

\* ORDER BY hit_count DESC LIMIT k
RECURSIVE OrderByHitsLimit(_, _, _)
OrderByHitsLimit(S, k, tie) ==
    IF S = {} \/ k = 0 THEN <<>>
    ELSE LET r == CHOOSE r \in S : \A q \in S : ComesBefore(r, q, tie)
         IN <<r>> \o OrderByHitsLimit(S \ {r}, k - 1, tie)

\* get_cache_stats: the five SELECTs and the dict it returns;
\* estimated_savings_usd is in ten-thousandths of a dollar
get_cache_stats ==
    /\ last.op # "stats"
    /\ \E tie \in {"up", "down"} :
       LET active == {r \in store : NotExpired(r, now)}
           total_entries == Cardinality(store)
           active_entries == Cardinality(active)
           total_hits == SumHitCount(store)
           top == OrderByHitsLimit(active, TopLimit, tie)
       IN
       last' = [op |-> "stats",
                result |->
                  [enabled |-> enabled,
                   total_entries |-> total_entries,
                   active_entries |-> active_entries,
                   expired_entries |-> total_entries - active_entries,
                   total_cache_hits |-> total_hits,
                   by_type |-> [ct \in {r.cache_type : r \in active} |->
                                   LET rows == {r \in active : r.cache_type = ct} IN
                                   [count |-> Cardinality(rows), hits |-> SumHitCount(rows)]],
                   top_cached_queries |->
                       [i \in DOMAIN top |->
                           [query |-> SubSeq(top[i].query, 1,
                                             Min(Len(top[i].query), QueryPrefixLength)),
                            hits |-> top[i].hit_count,
                            type |-> top[i].cache_type]],
                   estimated_savings_usd |-> total_hits * 3,
                   ttl_ask_seconds |-> CACHE_TTL_ASK,
                   ttl_recipe_seconds |-> CACHE_TTL_RECIPE]]
    /\ UNCHANGED <<procs, lock, written, served, store, now, tz, enabled, nhits>>

InitStats ==
    /\ store \in {StatsTable(n, m, a, b) :
                     n \in 0..MaxLive, m \in 0..MaxExpired,
                     a \in 0..(HitKinds - 1), b \in 0..(HitKinds - 1)}
    /\ now = StartClock
    /\ tz = 0
    /\ enabled \in BOOLEAN
    /\ last = [op |-> "init"]
    /\ nhits = [k \in Keys |-> 0]
    /\ served = 0
    /\ NoCalls

NextStats == get_cache_stats

SpecStats == InitStats /\ [][NextStats]_vars

\* C32: the statistics report total = active + expired with all three
\* natural numbers, total_hits as the sum of hit_count over the rows counted
\* in total, and at most 10 top queries in non-increasing order of hits, each
\* the first 50 characters of the query of a stored row with that row's hits
\* and kind.
C32_StatsConsistent ==
    last.op = "stats" =>
        LET R == last.result
            top == R.top_cached_queries
        IN
        /\ R.total_entries \in Nat /\ R.active_entries \in Nat /\ R.expired_entries \in Nat
        /\ R.total_entries = R.active_entries + R.expired_entries
        /\ R.total_entries = Cardinality(store)
        /\ R.total_cache_hits =
              Cardinality({x \in {r.cache_key : r \in store} \X (1..HitKinds) :
                              \E r \in store : r.cache_key = x[1] /\ x[2] <= r.hit_count})
        /\ Len(top) <= 10
        /\ \A i \in DOMAIN top, j \in DOMAIN top : i < j => top[i].hits >= top[j].hits
        /\ \A i \in DOMAIN top :
              \E r \in store :
                  /\ top[i].query = SubSeq(r.query, 1, Min(Len(r.query), 50))
                  /\ top[i].hits = r.hit_count /\ top[i].type = r.cache_type

\* C32 witness: statistics of a table with more than 10 live rows and with
\* expired rows: 10 top queries, the first with more hits than the last, one
\* of them cut to 50 characters
C32_Witness ==
    /\ last.op = "stats"
    /\ last.result.active_entries > 10 /\ last.result.expired_entries > 0
    /\ Len(last.result.top_cached_queries) = 10
    /\ last.result.top_cached_queries[1].hits > last.result.top_cached_queries[10].hits
    /\ \E i \in 1..10 : Len(last.result.top_cached_queries[i].query) = 50

----------------------------------------------------------------------------
(* Weekly challenges.  In this part store is the table                      *)
(* challenge_completions and now counts the weeks since the first week of   *)
(* an ISO year; the years met here have ISOWeeksPerYear weeks.  id is left  *)
(* out of the rows, completed_at is the week of the INSERT.                 *)

\* weeks the clock moves on within a year, and years it moves on
MaxWeeks == 1
MaxYears == 1

\* completion requests served
MaxCompletions == 4

ISOWeeksPerYear == 52

\* id and points_reward of the challenges (three of the six)
WEEKLY_CHALLENGES ==
    [bake_3 |-> 150, try_new |-> 100, weekend_bake |-> 75]

\* challenge ids and user ids the requests carry
ChallengeIds == {"bake_3", "try_new", "invalid_challenge"}
UserIds == {"u1", "u2"}

\* datetime.now().isocalendar()[1]: the number of the week in its year
get_current_week_number(t) == (t % ISOWeeksPerYear) + 1

\* the ISO week of the instant t: its year and the number of the week
ISOWeek(t) == <<t \div ISOWeeksPerYear, (t % ISOWeeksPerYear) + 1>>

\* POST /challenges/{challenge_id}/complete.  fault: sqlite3 raises inside
\* the try
complete_challenge(challenge_id, user_id, fault) ==
    /\ served < MaxCompletions
    /\ served' = served + 1
    /\ LET rq == [challenge_id |-> challenge_id, user_id |-> user_id]
           week_number == get_current_week_number(now)
           found == {r \in store : /\ r.user_id = user_id
                                   /\ r.challenge_id = challenge_id
                                   /\ r.week_number = week_number}
       IN
       IF challenge_id \notin DOMAIN WEEKLY_CHALLENGES
       THEN /\ last' = [op |-> "complete", request |-> rq,
                        response |-> [status |-> 404, detail |-> "Challenge not found"]]
            /\ store' = store
       ELSE IF fault
       THEN /\ last' = [op |-> "complete", request |-> rq,
                        response |-> [status |-> 500, detail |-> "Failed to complete challenge"]]
            /\ store' = store
       ELSE IF found # {}
       THEN /\ last' = [op |-> "complete", request |-> rq,
                        response |-> [status |-> 200, success |-> FALSE,
                                      points_awarded |-> 0]]
            /\ store' = store
       ELSE /\ last' = [op |-> "complete", request |-> rq,
                        response |-> [status |-> 200, success |-> TRUE,
                                      points_awarded |-> WEEKLY_CHALLENGES[challenge_id]]]
            /\ store' = store \cup
                  {[user_id |-> user_id, challenge_id |-> challenge_id,
                    week_number |-> week_number,
                    points_awarded |-> WEEKLY_CHALLENGES[challenge_id],
                    completed_at |-> now]}
    /\ UNCHANGED <<procs, lock, written, now, tz, enabled, nhits>>

\* time passes: to the next week, or to the same week of the next year
Later ==
    /\ \/ /\ now % ISOWeeksPerYear < MaxWeeks
          /\ now' = now + 1
       \/ /\ now \div ISOWeeksPerYear < MaxYears
          /\ now' = now + ISOWeeksPerYear
    /\ UNCHANGED <<procs, lock, written, served, store, tz, enabled, last, nhits>>

InitChallenge ==
    /\ store = {}
    /\ now = 0
    /\ tz = 0
    /\ enabled = TRUE
    /\ last = [op |-> "init"]
    /\ nhits = [k \in Keys |-> 0]
    /\ served = 0
    /\ NoCalls

NextChallenge ==
    \/ \E c \in ChallengeIds, u \in UserIds, fault \in BOOLEAN :
           complete_challenge(c, u, fault)
    \/ Later

SpecChallenge == InitChallenge /\ [][NextChallenge]_vars

\* the completions recorded for the user and challenge of request rq in the
\* ISO week of the instant t
CompletedInWeek(S, rq, t) ==
    {r \in S : /\ r.user_id = rq.user_id /\ r.challenge_id = rq.challenge_id
               /\ ISOWeek(r.completed_at) = ISOWeek(t)}

\* C33: of the completion requests for one user, challenge and ISO week the
\* first one the storage serves answers success with the challenge's
\* points_reward and records one completion, every later one answers
\* success = false with 0 points and records nothing, so no user has two
\* completions of a challenge in one ISO week; a request for an unknown
\* challenge id answers 404 and records nothing.
C33_OncePerWeek ==
    [][(served' = served + 1 /\ last'.op = "complete") =>
          LET rq == last'.request
              rs == last'.response
          IN
          /\ rq.challenge_id \notin DOMAIN WEEKLY_CHALLENGES =>
                (rs.status = 404 /\ store' = store)
          /\ rs.status = 200 =>
                IF CompletedInWeek(store, rq, now) = {}
                THEN /\ rs.success /\ rs.points_awarded = WEEKLY_CHALLENGES[rq.challenge_id]
                     /\ Cardinality(store') = Cardinality(store) + 1
                     /\ Cardinality(CompletedInWeek(store', rq, now)) = 1
                ELSE /\ ~rs.success /\ rs.points_awarded = 0
                     /\ store' = store
          /\ \A u \in UserIds, c \in ChallengeIds :
                Cardinality(CompletedInWeek(store', [user_id |-> u, challenge_id |-> c], now)) <= 1]_vars

----------------------------------------------------------------------------
(* Connections.  Every storage operation runs its statements in             *)
(* "with get_db() as conn": get_db opens a connection of its own, yields it *)
(* to the with block and closes it in its finally.  In this part            *)
(* procs[p].conn is the number of connections caller p holds open.          *)

StorageOps == {"get", "put", "sweep", "clear", "stats"}

\* the call of a storage operation; get_cached_response and cache_response
\* return before the with when CACHE_ENABLED is off
CallStorage(p, op) ==
    IF op \in {"get", "put"} /\ ~enabled
    THEN Called(p, "done", op, [conn |-> 0, raised |-> "no"])
    ELSE Called(p, "connect", op, [conn |-> 0, raised |-> "no"])

\* get_db up to its yield: sqlite3.connect returns a connection or raises
get_db_enter(p, fault) ==
    /\ procs[p].pc = "connect"
    /\ procs' = [procs EXCEPT ![p] =
                    IF fault
                    THEN Goto(p, "done", [raised |-> "connect"])
                    ELSE Goto(p, "with", [conn |-> procs[p].conn + 1])]
    /\ UNCHANGED <<lock, written, store, now, tz, enabled, last, nhits, served>>

\* the statements inside the with: they run to the commit and the return,
\* or one of them raises before the commit and the table stays as it was
with_block(p, key, e, ttl, fault) ==
    /\ procs[p].pc = "with"
    /\ procs' = [procs EXCEPT ![p] = Goto(p, "finally", [raised |-> IF fault THEN "with" ELSE "no"])]
    /\ store' =
          IF fault \/ procs[p].op = "stats" THEN store
          ELSE IF procs[p].op = "get"
          THEN IF SelectLive(store, key, now) # {}
               THEN UpdateHitCount(store, key) ELSE store
          ELSE IF procs[p].op = "put"
          THEN InsertOrReplace(store, NewRow(key, e, ttl, now, datetime_now))
          ELSE IF procs[p].op = "sweep"
          THEN {r \in store : ~Expired(r, now)}
          ELSE {}
    /\ UNCHANGED <<lock, written, now, tz, enabled, last, nhits, served>>

\* a get_db that closes the connection after the yield, without try/finally
get_db_exit_NoFinally(p) ==
    /\ procs[p].pc = "finally"
    /\ procs' = [procs EXCEPT ![p] =
                    Goto(p, "done", [conn |-> IF procs[p].raised # "no" THEN procs[p].conn
                                              ELSE procs[p].conn - 1])]
    /\ UNCHANGED <<lock, written, store, now, tz, enabled, last, nhits, served>>

\* get_db after its yield: finally conn.close(), on the return and on the
\* exception
get_db_exit(p) ==
    /\ procs[p].pc = "finally"
    /\ procs' = [procs EXCEPT ![p] = Goto(p, "done", [conn |-> procs[p].conn - 1])]
    /\ UNCHANGED <<lock, written, store, now, tz, enabled, last, nhits, served>>

InitHandles ==
    /\ store = {}
    /\ now = StartClock
    /\ tz = 0
    /\ enabled \in BOOLEAN
    /\ last = [op |-> "init"]
    /\ nhits = [k \in Keys |-> 0]
    /\ served = 0
    /\ procs = [p \in Procs |-> [pc |-> "idle", calls |-> 0, op |-> "none",
                                 conn |-> 0, raised |-> "no"]]
    /\ lock = 0
    /\ written = {}

NextHandles ==
    \/ \E p \in Procs, op \in StorageOps : CallStorage(p, op)
    \/ \E p \in Procs, fault \in BOOLEAN : get_db_enter(p, fault)
    \/ \E p \in Procs, k \in SharedKeys, e \in Entries, ttl \in HandlerTTLs,
          fault \in BOOLEAN : with_block(p, k, e, ttl, fault)
    \/ \E p \in Procs : get_db_exit(p)

SpecHandles == InitHandles /\ [][NextHandles]_vars

\* C34: a storage operation holds one connection while its statements run
\* and none once it has returned or failed, whichever way it ended.
C34_NoLeak ==
    \A p \in Procs :
        /\ procs[p].pc \in {"with", "finally"} => procs[p].conn = 1
        /\ procs[p].pc \in {"idle", "connect", "done"} => procs[p].conn = 0

\* C34 witness: the second get of a caller has ended on an exception raised
\* inside its with and holds no connection, while the other caller is inside
\* a with of its own
C34_Witness ==
    \E p \in Procs, q \in Procs :
        /\ procs[p].pc = "done" /\ procs[p].raised = "with" /\ procs[p].conn = 0
        /\ procs[p].op = "get" /\ procs[p].calls = MaxCalls
        /\ procs[q].pc = "with" /\ procs[q].conn = 1

----------------------------------------------------------------------------
(* The configuration of the TTLs.  CACHE_TTL_ASK and CACHE_TTL_RECIPE are   *)
(* read from the environment when the module is loaded, with the defaults   *)
(* of the other parts.  In this part last.env is the environment of the     *)
(* process: a function from the names that are set to their values.         *)

\* names of the environment the module reads a TTL from, and values they are
\* set to
EnvNames == {"CACHE_TTL_ASK", "CACHE_TTL_RECIPE"}
EnvValues == {60, 3600, 7200, 86400}
Envs == UNION {[D -> EnvValues] : D \in SUBSET EnvNames}

\* int(os.getenv(name, default))
os_getenv(env, name, default) ==
    IF name \in DOMAIN env THEN env[name] ELSE default

\* the ttl_seconds a handler passes to cache_response
ttl_seconds(kind, env) ==
    IF kind = "ask" THEN os_getenv(env, "CACHE_TTL_ASK", CACHE_TTL_ASK)
    ELSE IF kind = "recipe" THEN os_getenv(env, "CACHE_TTL_RECIPE", CACHE_TTL_RECIPE)
    ELSE IF kind = "technique" THEN 86400
    ELSE os_getenv(env, "CACHE_TTL_ASK", CACHE_TTL_ASK)

\* the cache_response call of the handler of a kind, after a miss and an
\* answer of the upstream
handler_cache_response(kind) ==
    /\ \A r \in store : r.cache_type # kind
    /\ LET ttl == ttl_seconds(kind, last.env)
           e == [cache_type |-> kind, query |-> "q1",
                 response_data |-> [response |-> "a1"],
                 prompt_variant |-> VariantOf(kind, "concise")]
       IN
       /\ store' = InsertOrReplace(store, NewRow(kind, e, ttl, now, datetime_now))
       /\ last' = [op |-> "cache_response", env |-> last.env, kind |-> kind,
                   ttl_seconds |-> ttl]
    /\ UNCHANGED <<procs, lock, written, served, now, tz, enabled, nhits>>

InitConfig ==
    /\ store = {}
    /\ now = StartClock
    /\ tz = 0
    /\ enabled = TRUE
    /\ last \in {[op |-> "init", env |-> env] : env \in Envs}
    /\ nhits = [k \in Keys |-> 0]
    /\ served = 0
    /\ NoCalls

NextConfig == \E kind \in Kinds : handler_cache_response(kind)

SpecConfig == InitConfig /\ [][NextConfig]_vars

\* the TTL of a kind by the claim: 3600, 86400, 86400 and 3600 seconds for
\* ask, recipe, technique and troubleshoot, unless the configuration of that
\* kind says otherwise; the environments drawn here set no TTL for technique
\* and none for troubleshoot
OwnTTL(kind, env) ==
    IF kind = "ask" THEN os_getenv(env, "CACHE_TTL_ASK", 3600)
    ELSE IF kind = "recipe" THEN os_getenv(env, "CACHE_TTL_RECIPE", 86400)
    ELSE IF kind = "technique" THEN 86400
    ELSE 3600

\* C35: a handler writes its entry with the TTL of its own kind, 3600, 86400,
\* 86400 and 3600 seconds for ask, recipe, technique and troubleshoot unless
\* that kind is configured otherwise, and never with the TTL configured for
\* another kind.
C35_OwnTTL ==
    last.op = "cache_response" =>
        last.ttl_seconds = OwnTTL(last.kind, last.env)

----------------------------------------------------------------------------
(* The handlers of a service that is stopped and started again: the table   *)
(* a run with caching enabled has filled is there when the next run has     *)
(* caching disabled.                                                        *)

NextReqRestart == NextReq \/ Restart

SpecReqRestart == InitReq /\ [][NextReqRestart]_vars

\* status and payload of the response to request rq
Answer(rq) ==
    IF rq.response.status = 200
    THEN [status |-> 200, payload |-> PayloadOf(rq.response)]
    ELSE [status |-> rq.response.status]

\* status and payload a handler answers with after a miss, by what the
\* upstream did
AnswerOnMiss(kind, up) ==
    IF up.raises = "APIConnectionError" THEN [status |-> 503]
    ELSE IF up.raises = "RateLimitError" THEN [status |-> 429]
    ELSE IF up.raises # "no" THEN [status |-> 500]
    ELSE IF kind = "ask" THEN [status |-> 200, payload |-> [response |-> up.text]]
    ELSE IF ~HoldsJsonObject(up.text) THEN [status |-> 500]
    ELSE [status |-> 200,
          payload |-> IF up.text[1] = "json" THEN up.text[2] ELSE up.text[2][2]]

\* C36: with caching disabled a request the sanitizer lets through calls the
\* upstream once, leaves the table as it was whatever rows it holds, meets no
\* storage failure, and answers with the status and payload that a request
\* with caching enabled answers with after a miss and the same upstream
\* answer.
C36_DisabledAsMiss ==
    [][(served' = served + 1 /\ last'.op = "request" /\ last'.gets = 1) =>
          /\ ~enabled =>
                /\ last'.upstream_calls = 1
                /\ store' = store
                /\ ~last'.get_fault
                /\ Answer(last') = AnswerOnMiss(last'.kind, last'.up)
          /\ (enabled /\ last'.upstream_calls = 1) =>
                Answer(last') = AnswerOnMiss(last'.kind, last'.up)]_vars

\* C36 witness: with caching disabled a request whose key has a live row in
\* the table, written by an earlier run, is answered 200 from the upstream
\* and the row is as it was
C36_Witness ==
    /\ ~enabled
    /\ last.op = "request" /\ last.gets = 1 /\ last.upstream_calls = 1
    /\ last.response.status = 200
    /\ \E r \in SelectLive(store, last.cache_key, now) :
          r.hit_count = 0 /\ json_loads(r.response_data) # PayloadOf(last.response)

====
